---- MODULE Spec2Model ----
(***************************************************************************)
(* Model of the quantum multi-backend server: the four backend adapters    *)
(* (qiskit, pennylane, cirq, pytket), their translation of a gate list     *)
(* into a native circuit, the conversion of native outcomes into the       *)
(* canonical counts / probabilities, and the server tools built on them.   *)
(*                                                                         *)
(* The simulation engines are external.  An engine is modelled by the set  *)
(* of basis states a run may produce (its support): classical gates act    *)
(* on it exactly, a superposing gate (h, rx, ry) adds the flipped states.  *)
(* A run of `shots` shots draws each shot from that support; the engine    *)
(* then reports the shots under its own native labelling.                  *)
(*                                                                         *)
(* Python's None is the empty sequence <<>>, a present value v is <<v>>.   *)
(* A bit string is a sequence of the one-character strings "0", "1", " ".  *)
(***************************************************************************)
EXTENDS Integers, Sequences, FiniteSets, TLC

(***************************************************************************)
(* Bounds of the model.                                                    *)
(***************************************************************************)
MaxQubits == 3
MaxGates == 2
MaxShots == 2

None == <<>>
Some(v) == <<v>>
IsNone(o) == o = <<>>
IsSome(o) == o # <<>>
The(o) == o[1]

Range(s) == {s[i] : i \in 1..Len(s)}

(***************************************************************************)
(* base.py: BackendType, the engine ids; Adapters are the ids that have an *)
(* adapter class (backends/*_backend.py).                                  *)
(***************************************************************************)
BackendType == {"qiskit", "pennylane", "cirq", "pytket", "classiq"}

Adapters == {"qiskit", "pennylane", "cirq", "pytket"}

(***************************************************************************)
(* The requests the model draws its inputs from.  A gate is                *)
(* {type, qubits, params}; qubit indices range over 0..MaxQubits-1, so an  *)
(* index is out of range whenever the circuit has fewer qubits.            *)
(***************************************************************************)
Theta == "theta"

Gate(t, qs, ps) == [type |-> t, qubits |-> qs, params |-> ps]

GateInputs ==
       {Gate("x", <<q>>, <<>>) : q \in 0..(MaxQubits - 1)}
  \cup {Gate("cx", <<q, q + 1>>, <<>>) : q \in 0..(MaxQubits - 2)}
  \cup { Gate("x", <<>>, <<>>),
         Gate("h", <<0>>, <<>>),
         Gate("cx", <<0, 0>>, <<>>),
         Gate("CNOT", <<1, 0>>, <<>>),
         Gate("swap", <<0, 1>>, <<>>),
         Gate("ccx", <<0, 1, 2>>, <<>>),
         Gate("cp", <<0, 1>>, <<Theta>>),
         Gate("cp", <<0, 1>>, <<>>),
         Gate("foo", <<0>>, <<>>) }

\* the caller's request, and the circuit_def dict the callers build from it
Request(nq, gates) == [num_qubits |-> nq, gates |-> gates]

CircuitDef(gates, measure) == [gates |-> gates, measure |-> measure]

NumQubitsInputs == {-1, 0} \cup ((MaxQubits - 1)..MaxQubits)

ShotsInputs == 0..MaxShots

(***************************************************************************)
(* Exceptions: a type and the message str(e) gives.                        *)
(***************************************************************************)
Exc(t, m) == [type |-> t, msg |-> m]

str(e) == e.msg

(***************************************************************************)
(* gate_op['type'].lower() on the type names the inputs use.               *)
(***************************************************************************)
lower(t) ==
  CASE t = "CNOT" -> "cnot"
    [] t = "H" -> "h"
    [] t = "X" -> "x"
    [] OTHER -> t

(***************************************************************************)
(* The if/elif chains of the four create_circuit / qfunc bodies: the       *)
(* names each chain has a branch for, and the native gate of the branch.   *)
(* A name with no branch falls through the chain: nothing is appended.     *)
(***************************************************************************)
CommonBranches ==
  { "h", "hadamard", "x", "pauli_x", "y", "pauli_y", "z", "pauli_z", "s", "t",
    "rx", "ry", "rz", "cx", "cnot", "cz", "swap", "ccx", "toffoli" }

\* a chain that lost its swap branch
CirqBranches_noswap == CommonBranches \ {"swap"}

QiskitBranches == CommonBranches \cup {"cp"}
PennyLaneBranches == CommonBranches \cup {"cp"}
CirqBranches == CommonBranches
PyTKETBranches == CommonBranches

NativeGate(t) ==
  CASE t \in {"h", "hadamard"} -> "h"
    [] t \in {"x", "pauli_x"} -> "x"
    [] t \in {"y", "pauli_y"} -> "y"
    [] t \in {"z", "pauli_z"} -> "z"
    [] t \in {"cx", "cnot"} -> "cx"
    [] t \in {"ccx", "toffoli"} -> "ccx"
    [] OTHER -> t

\* how many entries of gate_op['qubits'] the branch reads
Arity(n) ==
  CASE n \in {"cx", "cz", "swap", "cp"} -> 2
    [] n = "ccx" -> 3
    [] OTHER -> 1

\* the branch reads params[0]
ReadsParam(n) == n \in {"rx", "ry", "rz", "cp"}

(***************************************************************************)
(* One pass through the body of the gate loop: what the branch taken for   *)
(* gate_op does.  The result is {raised, ops}: the exception the branch    *)
(* raised, or the native operations it appended (none when no branch       *)
(* matched).  Subscripting qubits / params past their end is Python's      *)
(* IndexError; an operand the engine has no qubit for, or one used twice   *)
(* in a gate, is rejected by the engine's gate call.                       *)
(***************************************************************************)
Appended(ops) == [raised |-> None, ops |-> ops]
Raised(e) == [raised |-> Some(e), ops |-> <<>>]

NativeOp(n, qs, ps) == [name |-> n, qubits |-> qs, params |-> ps]

IndexError == Exc("IndexError", "list index out of range")

Distinct(qs) == \A i, j \in 1..Len(qs) : i # j => qs[i] # qs[j]
InRange(qs, nq) == \A i \in 1..Len(qs) : qs[i] \in 0..(nq - 1)

BranchCall(nq, n, gate_op, rangeExc, dupExc) ==
  IF ReadsParam(n) /\ Len(gate_op.params) = 0 THEN Raised(IndexError)
  ELSE IF Len(gate_op.qubits) < Arity(n) THEN Raised(IndexError)
  ELSE LET qs == SubSeq(gate_op.qubits, 1, Arity(n))
           ps == IF ReadsParam(n) THEN <<gate_op.params[1]>> ELSE <<>>
       IN  IF ~InRange(qs, nq) THEN Raised(rangeExc)
           ELSE IF ~Distinct(qs) THEN Raised(dupExc)
           ELSE Appended(<<NativeOp(n, qs, ps)>>)

Qiskit_gate(nq, gate_op) ==
  LET gate_type == lower(gate_op.type)
  IN  IF gate_type \in QiskitBranches
      THEN BranchCall(nq, NativeGate(gate_type), gate_op,
                      Exc("CircuitError", "Index out of range."),
                      Exc("CircuitError", "duplicate qubit arguments"))
      ELSE Appended(<<>>)

PennyLane_gate(nq, gate_op) ==
  LET gate_type == lower(gate_op.type)
  IN  IF gate_type \in PennyLaneBranches
      THEN BranchCall(nq, NativeGate(gate_type), gate_op,
                      Exc("WireError", "Wire not found on device"),
                      Exc("WireError", "Wires must be unique"))
      ELSE Appended(<<>>)

Cirq_gate(nq, gate_op) ==
  LET gate_type == lower(gate_op.type)
  IN  IF gate_type \in CirqBranches
      THEN BranchCall(nq, NativeGate(gate_type), gate_op,
                      IndexError,
                      Exc("ValueError", "Duplicate qids"))
      ELSE Appended(<<>>)

PyTKET_gate(nq, gate_op) ==
  LET gate_type == lower(gate_op.type)
  IN  IF gate_type \in PyTKETBranches
      THEN BranchCall(nq, NativeGate(gate_type), gate_op,
                      Exc("RuntimeError", "Circuit does not contain unit"),
                      Exc("RuntimeError", "Operation has duplicate arguments"))
      ELSE Appended(<<>>)

GateLoopBody(b, nq, gate_op) ==
  CASE b = "qiskit" -> Qiskit_gate(nq, gate_op)
    [] b = "pennylane" -> PennyLane_gate(nq, gate_op)
    [] b = "cirq" -> Cirq_gate(nq, gate_op)
    [] b = "pytket" -> PyTKET_gate(nq, gate_op)

\* for gate_op in circuit_def.get('gates', []): the first raise ends the loop
RECURSIVE GateLoopFrom(_, _, _, _, _)
GateLoopFrom(b, nq, gates, i, ops) ==
  IF i > Len(gates) THEN Appended(ops)
  ELSE LET r == GateLoopBody(b, nq, gates[i])
       IN  IF IsSome(r.raised) THEN r
           ELSE GateLoopFrom(b, nq, gates, i + 1, ops \o r.ops)

GateLoop(b, nq, gates) == GateLoopFrom(b, nq, gates, 1, <<>>)

(***************************************************************************)
(* create_circuit of the three adapters that build a native circuit.  A    *)
(* native circuit is {class, num_qubits, ops, clbits, regs}: clbits[i] is  *)
(* the qubit measured into classical bit i-1 (-1: none), regs the sizes of *)
(* the classical registers in the order they were added.  The result is    *)
(* {raised, circuit}: create_circuit has no try, what a step raises leaves *)
(* the method.                                                             *)
(***************************************************************************)
Returned(c) == [raised |-> None, value |-> Some(c)]
Propagated(e) == [raised |-> Some(e), value |-> None]

Native(cls, nq, ops, clbits, regs) ==
  [class |-> cls, num_qubits |-> nq, ops |-> ops, clbits |-> clbits, regs |-> regs]

AllQubits(nq) == [i \in 1..(IF nq > 0 THEN nq ELSE 0) |-> i - 1]

HasMeasure(c) == \E i \in 1..Len(c.clbits) : c.clbits[i] >= 0

\* QuantumCircuit.measure_all(): a new register 'meas' with one bit per qubit
measure_all(c) ==
  [c EXCEPT !.clbits = c.clbits \o AllQubits(c.num_qubits),
            !.regs = c.regs \o <<c.num_qubits>>]

Qiskit_create_circuit(num_qubits, circuit_def) ==
  IF num_qubits < 0
  THEN Propagated(Exc("CircuitError", "Register size must be non-negative"))
  ELSE LET r == GateLoop("qiskit", num_qubits, circuit_def.gates)
           qc == Native("QuantumCircuit", num_qubits, r.ops, <<>>, <<>>)
       IN  IF IsSome(r.raised) THEN Propagated(The(r.raised))
           ELSE IF circuit_def.measure THEN Returned(measure_all(qc))
           ELSE Returned(qc)

\* cirq.measure(*qubits, key='result') refuses an empty list of qubits
Cirq_create_circuit(num_qubits, circuit_def) ==
  LET r == GateLoop("cirq", num_qubits, circuit_def.gates)
      n == IF num_qubits > 0 THEN num_qubits ELSE 0
      circuit == Native("cirq.Circuit", n, r.ops, <<>>, <<>>)
  IN  IF IsSome(r.raised) THEN Propagated(The(r.raised))
      ELSE IF circuit_def.measure
      THEN IF n = 0
           THEN Propagated(Exc("ValueError", "Measuring an empty set of qubits."))
           ELSE Returned([circuit EXCEPT !.clbits = AllQubits(n), !.regs = <<n>>])
      ELSE Returned(circuit)

PyTKET_create_circuit(num_qubits, circuit_def) ==
  IF num_qubits < 0
  THEN Propagated(Exc("TypeError", "incompatible constructor arguments"))
  ELSE LET r == GateLoop("pytket", num_qubits, circuit_def.gates)
           circuit == Native("pytket.Circuit", num_qubits, r.ops, <<>>, <<>>)
       IN  IF IsSome(r.raised) THEN Propagated(The(r.raised))
           ELSE IF circuit_def.measure THEN Returned(measure_all(circuit))
           ELSE Returned(circuit)

(***************************************************************************)
(* The engines.  A basis state is a sequence of bits, entry i+1 the value  *)
(* of qubit i.  Support(nq, ops) is the set of basis states a measurement  *)
(* of all qubits can give after ops on |0...0>.                            *)
(***************************************************************************)
Zero(nq) == [i \in 1..nq |-> 0]
Flip(s, q) == [s EXCEPT ![q + 1] = 1 - s[q + 1]]

ApplyGate(op, s) ==
  LET q == op.qubits
  IN  CASE op.name \in {"x", "y"} -> {Flip(s, q[1])}
        [] op.name \in {"h", "rx", "ry"} -> {s, Flip(s, q[1])}
        [] op.name = "cx" -> {IF s[q[1] + 1] = 1 THEN Flip(s, q[2]) ELSE s}
        [] op.name = "ccx" ->
             {IF s[q[1] + 1] = 1 /\ s[q[2] + 1] = 1 THEN Flip(s, q[3]) ELSE s}
        [] op.name = "swap" ->
             {[s EXCEPT ![q[1] + 1] = s[q[2] + 1], ![q[2] + 1] = s[q[1] + 1]]}
        [] OTHER -> {s}

RECURSIVE SupportFrom(_, _, _)
SupportFrom(ops, i, states) ==
  IF i > Len(ops) THEN states
  ELSE SupportFrom(ops, i + 1, UNION {ApplyGate(ops[i], s) : s \in states})

Support(nq, ops) == SupportFrom(ops, 1, {Zero(nq)})

\* the per-shot outcomes a run of `shots` shots may give
Runs(nq, ops, shots) == [1..shots -> Support(nq, ops)]

\* what a simulator may raise while running a well-formed circuit
EngineFailures == {Exc("RuntimeError", ""), Exc("MemoryError", "out of memory")}

\* wall-clock durations time.time() - start_time may give
MaxTime == 1
Times == 0..MaxTime

(***************************************************************************)
(* Bit strings.                                                            *)
(***************************************************************************)
Char(bit) == IF bit = 1 THEN "1" ELSE "0"

\* ''.join(str(int(b)) for b in row)
join(row) == [i \in 1..Len(row) |-> Char(row[i])]

\* k[::-1]
Reverse(k) == [i \in 1..Len(k) |-> k[Len(k) + 1 - i]]

\* the classical bits a shot leaves: bit i-1 holds the qubit measured into it
ClassicalBits(c, sample) ==
  [i \in 1..Len(c.clbits) |->
     IF c.clbits[i] >= 0 THEN sample[c.clbits[i] + 1] ELSE 0]

\* the classical bits written register by register, a blank between registers
RECURSIVE Registers(_, _, _)
Registers(bits, regs, i) ==
  IF i > Len(regs) THEN <<>>
  ELSE LET head == SubSeq(bits, 1, regs[i])
           rest == SubSeq(bits, regs[i] + 1, Len(bits))
       IN  join(head) \o (IF i < Len(regs) THEN <<" ">> ELSE <<>>)
             \o Registers(rest, regs, i + 1)

\* Qiskit labels an outcome little-endian: the last classical bit of the
\* last register first, classical bit 0 last
QiskitLabel(c, sample) == Reverse(Registers(ClassicalBits(c, sample), c.regs, 1))

\* pytket labels an outcome by the tuple of its bits, c[0] first
PyTKETLabel(c, sample) == ClassicalBits(c, sample)

\* a row of cirq's measurements['result']: the measured qubits in key order
CirqRow(c, sample) == ClassicalBits(c, sample)

(***************************************************************************)
(* Histograms.  A dict is a function; the counting loop                    *)
(*     counts[k] = counts.get(k, 0) + 1                                    *)
(* and the engine's own get_counts() both count the labels of the shots.   *)
(***************************************************************************)
EmptyDict == [k \in {} |-> 0]

Put(d, k, v) == [x \in (DOMAIN d) \cup {k} |-> IF x = k THEN v ELSE d[x]]
Get(d, k, default) == IF k \in DOMAIN d THEN d[k] ELSE default

RECURSIVE CountFrom(_, _, _)
CountFrom(labels, i, counts) ==
  IF i > Len(labels) THEN counts
  ELSE CountFrom(labels, i + 1, Put(counts, labels[i], Get(counts, labels[i], 0) + 1))

Count(labels) == CountFrom(labels, 1, EmptyDict)

\* sum(d.values())
RECURSIVE SumOver(_, _)
SumOver(d, keys) ==
  IF keys = {} THEN 0
  ELSE LET k == CHOOSE x \in keys : TRUE
       IN  d[k] + SumOver(d, keys \ {k})

sum(d) == SumOver(d, DOMAIN d)

\* v / total as an exact fraction; Python raises ZeroDivisionError on total = 0
Frac(v, total) == [num |-> v, den |-> total]

ZeroDivisionError == Exc("ZeroDivisionError", "division by zero")

\* {k: v/total for k, v in counts.items()}: {raised, value}
Probabilities(counts, total) ==
  IF DOMAIN counts # {} /\ total = 0 THEN Propagated(ZeroDivisionError)
  ELSE Returned([k \in DOMAIN counts |-> Frac(counts[k], total)])

(***************************************************************************)
(* base.py: CircuitResult, as the adapters construct it.                   *)
(***************************************************************************)
CircuitResult(backend, counts, probabilities, execution_time, metadata, error) ==
  [ backend |-> backend, counts |-> counts, probabilities |-> probabilities,
    execution_time |-> execution_time, metadata |-> metadata, error |-> error ]

\* the return of the try block
SuccessResult(name, counts, probabilities, execution_time, shots) ==
  CircuitResult(name, Some(counts), Some(probabilities), Some(execution_time),
                [shots |-> shots, success |-> TRUE], None)

\* an except block that reports the failure beside empty counts
ErrorResult_withcounts(name, e, shots) ==
  CircuitResult(name, Some(EmptyDict), Some(EmptyDict), None,
                [shots |-> shots, success |-> FALSE], Some(str(e)))

\* the return of the except block
ErrorResult(name, e, shots) ==
  CircuitResult(name, None, None, None,
                [shots |-> shots, success |-> FALSE], Some(str(e)))

(***************************************************************************)
(* The body of a try block ends in one of two ways: it raised e, or it     *)
(* reached its return with a result.  `shot` records the basis states the  *)
(* engine drew (one per shot, counted), for stating what the counts mean.  *)
(***************************************************************************)
BodyRaised(e) ==
  [raised |-> Some(e), value |-> None, shot |-> EmptyDict, caught |-> None]
BodyReturned(r, samples) ==
  [raised |-> None, value |-> Some(r), shot |-> Count(samples), caught |-> None]

\* a body with no try around it
TryExcept_notry(name, shots, body) == body

\* try: <body> except Exception as e: return CircuitResult(error=str(e), ...)
\* `caught` records the exception the except clause handled.
TryExcept(name, shots, body) ==
  IF IsSome(body.raised)
  THEN [raised |-> None, value |-> Some(ErrorResult(name, The(body.raised), shots)),
        shot |-> EmptyDict, caught |-> body.raised]
  ELSE body

IsA(circuit, cls) == "class" \in DOMAIN circuit /\ circuit.class = cls
IsDict(circuit) == DOMAIN circuit = {"gates", "measure"}

\* what the caller passes when it has no circuit
NoCircuit == [class |-> "NoneType"]

AttributeError == Exc("AttributeError", "object has no attribute")

\* the engines refuse a run of less than one shot, or of no qubit
RunRefused(nq, shots) == shots <= 0 \/ nq <= 0
RefusedError == Exc("ValueError", "invalid number of shots or qubits")

\* a comprehension that keys every outcome by its first character
ReverseKeys_truncated(counts) ==
  [key \in {SubSeq(k, 1, 1) : k \in DOMAIN counts} |->
     counts[CHOOSE k \in DOMAIN counts : SubSeq(k, 1, 1) = key]]

\* the comprehension without the [::-1]
ReverseKeys_unreversed(counts) == counts

\* {str(k)[::-1]: int(v) for k, v in counts.items()}
ReverseKeys(counts) ==
  [key \in {Reverse(k) : k \in DOMAIN counts} |->
     counts[CHOOSE k \in DOMAIN counts : Reverse(k) = key]]

\* counts[''.join(str(b) for b in outcome)] = count, for every outcome
JoinKeys(counts) ==
  [key \in {join(k) : k \in DOMAIN counts} |->
     counts[CHOOSE k \in DOMAIN counts : join(k) = key]]

\* total = sum(counts.values()); probabilities; return CircuitResult(...)
Finish(name, counts, execution_time, shots, samples) ==
  LET total == sum(counts)
      probabilities == Probabilities(counts, total)
  IN  IF IsSome(probabilities.raised) THEN BodyRaised(The(probabilities.raised))
      ELSE BodyReturned(SuccessResult(name, counts, The(probabilities.value),
                                      execution_time, shots), samples)

(***************************************************************************)
(* QiskitBackend.execute_circuit                                           *)
(***************************************************************************)
Qiskit_try(circuit, shots) ==
  IF ~IsA(circuit, "QuantumCircuit") THEN {BodyRaised(AttributeError)}
  ELSE
    LET has_measurements == HasMeasure(circuit)
        run == IF ~has_measurements THEN measure_all(circuit) ELSE circuit
    IN  IF RunRefused(run.num_qubits, shots) THEN {BodyRaised(RefusedError)}
        ELSE {BodyRaised(e) : e \in EngineFailures} \cup
             { LET counts == Count([i \in 1..shots |-> QiskitLabel(run, samples[i])])
                   formatted_counts == ReverseKeys(counts)
               IN  Finish("qiskit", formatted_counts, execution_time, shots, samples)
               : samples \in Runs(run.num_qubits, run.ops, shots),
                 execution_time \in Times }

Qiskit_execute_circuit(circuit, shots) ==
  {TryExcept("qiskit", shots, body) : body \in Qiskit_try(circuit, shots)}

(***************************************************************************)
(* CirqBackend.execute_circuit.  simulator.run refuses a circuit without   *)
(* measurement; zero repetitions give an empty measurement array.          *)
(***************************************************************************)
Cirq_try(circuit, shots) ==
  IF ~IsA(circuit, "cirq.Circuit") THEN {BodyRaised(AttributeError)}
  ELSE IF ~HasMeasure(circuit)
  THEN {BodyRaised(Exc("ValueError", "Circuit has no measurements to sample."))}
  ELSE IF shots < 0 THEN {BodyRaised(RefusedError)}
  ELSE {BodyRaised(e) : e \in EngineFailures} \cup
       { LET measurements == [i \in 1..shots |-> CirqRow(circuit, samples[i])]
             counts == Count([i \in 1..shots |-> join(measurements[i])])
         IN  Finish("cirq", counts, execution_time, shots, samples)
         : samples \in Runs(circuit.num_qubits, circuit.ops, shots),
           execution_time \in Times }

Cirq_execute_circuit(circuit, shots) ==
  {TryExcept("cirq", shots, body) : body \in Cirq_try(circuit, shots)}

(***************************************************************************)
(* PyTKETBackend.execute_circuit.  The backend is taken to refuse a        *)
(* circuit that measures nothing.                                          *)
(***************************************************************************)
PyTKET_try(circuit, shots) ==
  IF ~IsA(circuit, "pytket.Circuit") THEN {BodyRaised(AttributeError)}
  ELSE IF ~HasMeasure(circuit)
  THEN {BodyRaised(Exc("RuntimeError", "Circuit has no measurements"))}
  ELSE IF RunRefused(circuit.num_qubits, shots) THEN {BodyRaised(RefusedError)}
  ELSE {BodyRaised(e) : e \in EngineFailures} \cup
       { LET counts_dict == Count([i \in 1..shots |-> PyTKETLabel(circuit, samples[i])])
             counts == JoinKeys(counts_dict)
         IN  Finish("pytket", counts, execution_time, shots, samples)
         : samples \in Runs(circuit.num_qubits, circuit.ops, shots),
           execution_time \in Times }

PyTKET_execute_circuit(circuit, shots) ==
  {TryExcept("pytket", shots, body) : body \in PyTKET_try(circuit, shots)}

(***************************************************************************)
(* PennyLaneBackend.  `self` is {last_circuit_def, last_num_qubits}, both  *)
(* absent until the first create_circuit (__init__ sets neither).          *)
(* create_circuit stores its arguments and returns the definition itself;  *)
(* the gate loop runs inside execute_circuit, on a device that has         *)
(* last_num_qubits wires, and qml.sample() returns one row per shot with   *)
(* wire 0 first.                                                           *)
(***************************************************************************)
PennyLane_init == [last_circuit_def |-> None, last_num_qubits |-> None]

PennyLane_create_circuit_self(self, num_qubits, circuit_def) ==
  [last_circuit_def |-> Some(circuit_def), last_num_qubits |-> Some(num_qubits)]

PennyLane_create_circuit(num_qubits, circuit_def) == Returned(circuit_def)

PennyLane_try(self, circuit, shots) ==
  IF IsNone(self.last_num_qubits) THEN {BodyRaised(AttributeError)}
  ELSE
    LET circuit_def == circuit
        num_qubits == The(self.last_num_qubits)
    IN  IF RunRefused(num_qubits, shots) THEN {BodyRaised(RefusedError)}
        ELSE IF ~IsDict(circuit_def) THEN {BodyRaised(AttributeError)}
        ELSE
          LET qfunc == GateLoop("pennylane", num_qubits, circuit_def.gates)
          IN  IF IsSome(qfunc.raised) THEN {BodyRaised(The(qfunc.raised))}
              ELSE {BodyRaised(e) : e \in EngineFailures} \cup
                   { LET counts == Count([i \in 1..shots |-> join(samples[i])])
                     IN  Finish("pennylane", counts, execution_time, shots, samples)
                     : samples \in Runs(num_qubits, qfunc.ops, shots),
                       execution_time \in Times }

PennyLane_execute_circuit(self, circuit, shots) ==
  {TryExcept("pennylane", shots, body) : body \in PennyLane_try(self, circuit, shots)}

(***************************************************************************)
(* from_qasm.  The interchange string is opaque; a string is given by what *)
(* it parses to: the circuit it declares, or nothing when it is no QASM.   *)
(* Qiskit and pytket parse it; PennyLane raises NotImplementedError; Cirq  *)
(* hands the string to cirq.qasm(), which serialises circuits and raises   *)
(* TypeError on a string.                                                  *)
(***************************************************************************)
Qasm(nq, ops, clbits, regs) ==
  [valid |-> TRUE, num_qubits |-> nq, ops |-> ops, clbits |-> clbits, regs |-> regs]

XOnQubit0 == <<NativeOp("x", <<0>>, <<>>)>>

\* qreg q[2]; creg c[2]; x q[0]; measure q -> c;
QasmMeasureAll == Qasm(MaxQubits - 1, XOnQubit0, AllQubits(MaxQubits - 1), <<MaxQubits - 1>>)
\* qreg q[2]; creg c[1]; x q[0]; measure q[0] -> c[0];
QasmMeasureOne == Qasm(MaxQubits - 1, XOnQubit0, <<0>>, <<1>>)
\* qreg q[2]; creg c[1]; x q[0];
QasmNoMeasure == Qasm(MaxQubits - 1, XOnQubit0, <<-1>>, <<1>>)
\* not QASM
QasmInvalid == [valid |-> FALSE, num_qubits |-> 0, ops |-> <<>>, clbits |-> <<>>, regs |-> <<>>]

QasmInputs == {QasmMeasureAll, QasmMeasureOne, QasmNoMeasure, QasmInvalid}

Parse(cls, qasm_str) ==
  IF qasm_str.valid
  THEN Returned(Native(cls, qasm_str.num_qubits, qasm_str.ops, qasm_str.clbits,
                       qasm_str.regs))
  ELSE Propagated(Exc("QASMParseError", "cannot parse"))

Qiskit_from_qasm(qasm_str) == Parse("QuantumCircuit", qasm_str)
PyTKET_from_qasm(qasm_str) == Parse("pytket.Circuit", qasm_str)
Cirq_from_qasm(qasm_str) ==
  Propagated(Exc("TypeError", "object of type 'str' does have a _qasm_ method"))
PennyLane_from_qasm(qasm_str) ==
  Propagated(Exc("NotImplementedError", "PennyLane QASM import not implemented"))

(***************************************************************************)
(* The adapter interface (QuantumBackend), dispatched on the instance.     *)
(***************************************************************************)
create_circuit(b, num_qubits, circuit_def) ==
  CASE b = "qiskit" -> Qiskit_create_circuit(num_qubits, circuit_def)
    [] b = "pennylane" -> PennyLane_create_circuit(num_qubits, circuit_def)
    [] b = "cirq" -> Cirq_create_circuit(num_qubits, circuit_def)
    [] b = "pytket" -> PyTKET_create_circuit(num_qubits, circuit_def)

\* what create_circuit leaves in the PennyLane instance
create_circuit_self(b, self, num_qubits, circuit_def) ==
  IF b = "pennylane" THEN PennyLane_create_circuit_self(self, num_qubits, circuit_def)
  ELSE self

from_qasm(b, qasm_str) ==
  CASE b = "qiskit" -> Qiskit_from_qasm(qasm_str)
    [] b = "pennylane" -> PennyLane_from_qasm(qasm_str)
    [] b = "cirq" -> Cirq_from_qasm(qasm_str)
    [] b = "pytket" -> PyTKET_from_qasm(qasm_str)

execute_circuit(b, self, circuit, shots) ==
  CASE b = "qiskit" -> Qiskit_execute_circuit(circuit, shots)
    [] b = "pennylane" -> PennyLane_execute_circuit(self, circuit, shots)
    [] b = "cirq" -> Cirq_execute_circuit(circuit, shots)
    [] b = "pytket" -> PyTKET_execute_circuit(circuit, shots)

(***************************************************************************)
(* server.py.  The registry BACKENDS maps engine ids to adapter instances; *)
(* an instance is named by its id.  server.py registers qiskit alone,      *)
(* server_mcp.py the four adapters.                                        *)
(***************************************************************************)
ServerBACKENDS == {"qiskit"}
McpBACKENDS == {"qiskit", "pennylane", "cirq", "pytket"}

\* Python truth of an optional string: None and '' are false
Truthy(o) == IsSome(o) /\ The(o) # ""

\* one adapter invocation made while a tool runs, and how it ended: it raised,
\* it returned, or (execute_circuit) it returned a CircuitResult with error set
\* ("error") or with error None ("success")
Invocation(op, b, ended) == [op |-> op, backend |-> b, ended |-> ended]

Ended(made) == IF IsSome(made.raised) THEN "raised" ELSE "returned"

ExecuteEnded(out) ==
  IF IsSome(out.raised) THEN "raised"
  ELSE IF IsSome(The(out.value).error) THEN "error"
  ELSE "success"

\* how a tool call ends: the exception that left it or the dict it returned,
\* the adapter invocations it made, and the PennyLane instance it leaves
ToolReturned(resp, calls, self) ==
  [raised |-> None, value |-> Some(resp), calls |-> calls, self |-> self]
ToolRaised(e, calls, self) ==
  [raised |-> Some(e), value |-> None, calls |-> calls, self |-> self]

\* the dicts execute_circuit returns; `keys` are the keys present
ErrorOnly(msg) ==
  [keys |-> {"error"}, success |-> None, error |-> Some(msg), backend |-> None,
   counts |-> None, probabilities |-> None, execution_time |-> None,
   metadata |-> None]

FailureDict(msg, backend) ==
  [keys |-> {"success", "error", "backend"}, success |-> Some(FALSE),
   error |-> Some(msg), backend |-> Some(backend),
   counts |-> None, probabilities |-> None, execution_time |-> None,
   metadata |-> None]

SuccessDict(result) ==
  [keys |-> {"success", "backend", "counts", "probabilities", "execution_time",
             "metadata"},
   success |-> Some(TRUE), error |-> None, backend |-> Some(result.backend),
   counts |-> result.counts, probabilities |-> result.probabilities,
   execution_time |-> result.execution_time, metadata |-> Some(result.metadata)]

\* server.execute_circuit: the set of ways the call can end
Server_execute_circuit(BK, self, num_qubits, gates, backend, shots, qasm) ==
  IF backend \notin BK
  THEN {ToolReturned(ErrorOnly("Backend not supported"), <<>>, self)}
  ELSE
    LET backend_obj == backend
    IN  IF IsSome(qasm) \/ (gates # <<>> /\ num_qubits # 0)
        THEN
          LET made == IF IsSome(qasm) THEN from_qasm(backend_obj, The(qasm))
                      ELSE create_circuit(backend_obj, num_qubits,
                                          CircuitDef(gates, TRUE))
              self1 == IF IsSome(qasm) THEN self
                       ELSE create_circuit_self(backend_obj, self, num_qubits,
                                                CircuitDef(gates, TRUE))
              first == <<Invocation(IF IsSome(qasm) THEN "from_qasm"
                                    ELSE "create_circuit", backend, Ended(made))>>
          IN  IF IsSome(made.raised)
              THEN {ToolReturned(FailureDict(str(The(made.raised)), backend),
                                 first, self1)}
              ELSE
                { LET calls == first \o <<Invocation("execute_circuit", backend,
                                                     ExecuteEnded(out))>>
                  IN  IF IsSome(out.raised)
                      THEN ToolReturned(FailureDict(str(The(out.raised)), backend),
                                        calls, self1)
                      ELSE IF Truthy(The(out.value).error)
                      THEN ToolReturned(FailureDict(The(The(out.value).error), backend),
                                        calls, self1)
                      ELSE ToolReturned(SuccessDict(The(out.value)), calls, self1)
                  : out \in execute_circuit(backend_obj, self1, The(made.value), shots) }
        ELSE {ToolReturned(ErrorOnly("Must provide either qasm or (num_qubits + gates)"),
                           <<>>, self)}

(***************************************************************************)
(* execute_multi_backend.  The loop state is {results, order, errors,      *)
(* calls, self}: the two dicts, the order in which keys entered results    *)
(* (a dict keeps insertion order), the adapter invocations so far and the  *)
(* PennyLane instance.                                                     *)
(***************************************************************************)
LoopStart(self) ==
  [results |-> EmptyDict, order |-> <<>>, errors |-> EmptyDict, calls |-> <<>>,
   self |-> self]

\* a loop that runs a failed engine a second time
SetError_retried(L, name, msg, calls, self) ==
  [L EXCEPT !.errors = Put(L.errors, name, msg),
            !.calls = L.calls \o calls \o calls, !.self = self]

SetError(L, name, msg, calls, self) ==
  [L EXCEPT !.errors = Put(L.errors, name, msg), !.calls = L.calls \o calls,
            !.self = self]

SetResult(L, name, result, calls, self) ==
  [L EXCEPT !.results = Put(L.results, name,
                            [counts |-> result.counts,
                             probabilities |-> result.probabilities,
                             execution_time |-> result.execution_time]),
            !.order = IF name \in DOMAIN L.results THEN L.order
                      ELSE Append(L.order, name),
            !.calls = L.calls \o calls,
            !.self = self]

\* one pass through the body of `for backend_name in backends`
LoopBody(BK, L, backend_name, num_qubits, gates, shots) ==
  IF backend_name \notin BK
  THEN {SetError(L, backend_name, "Backend not available", <<>>, L.self)}
  ELSE
    LET backend_obj == backend_name
        circuit_def == CircuitDef(gates, TRUE)
        made == create_circuit(backend_obj, num_qubits, circuit_def)
        self1 == create_circuit_self(backend_obj, L.self, num_qubits, circuit_def)
        first == <<Invocation("create_circuit", backend_name, Ended(made))>>
    IN  IF IsSome(made.raised)
        THEN {SetError(L, backend_name, str(The(made.raised)), first, self1)}
        ELSE
          { LET calls == first \o <<Invocation("execute_circuit", backend_name,
                                               ExecuteEnded(out))>>
            IN  IF IsSome(out.raised)
                THEN SetError(L, backend_name, str(The(out.raised)), calls, self1)
                ELSE IF Truthy(The(out.value).error)
                THEN SetError(L, backend_name, The(The(out.value).error), calls, self1)
                ELSE SetResult(L, backend_name, The(out.value), calls, self1)
            : out \in execute_circuit(backend_obj, self1, The(made.value), shots) }

RECURSIVE Loop(_, _, _, _, _, _, _)
Loop(BK, Ls, backends, i, num_qubits, gates, shots) ==
  IF i > Len(backends) THEN Ls
  ELSE Loop(BK,
            UNION {LoopBody(BK, L, backends[i], num_qubits, gates, shots) : L \in Ls},
            backends, i + 1, num_qubits, gates, shots)

(***************************************************************************)
(* Python floats.  A float is an IEEE 754 binary64 number; the ones met    *)
(* here are 0 and the positive normal numbers m * 2^(e - 52) with a 53-bit *)
(* significand m = hi * 2^26 + lo (2^26 <= hi < 2^27, 0 <= lo < 2^26).     *)
(* Division and addition round to nearest, ties to even.                   *)
(***************************************************************************)
Pow2(k) == 2 ^ k

Float(e, hi, lo) == [e |-> e, hi |-> hi, lo |-> lo]
FloatZero == Float(0, 0, 0)
FloatOne == Float(0, Pow2(26), 0)

\* the significand incremented by one unit in the last place when `up`
Rounded(e, hi, lo, up) ==
  IF ~up THEN Float(e, hi, lo)
  ELSE IF lo + 1 < Pow2(26) THEN Float(e, hi, lo + 1)
  ELSE IF hi + 1 < Pow2(27) THEN Float(e, hi + 1, 0)
  ELSE Float(e + 1, Pow2(26), 0)

\* a * 2^k scaled into [n, 2n)
RECURSIVE Normalized(_, _, _)
Normalized(a, n, k) ==
  IF a >= n THEN [a |-> a, k |-> k] ELSE Normalized(2 * a, n, k + 1)

\* the next 26 quotient bits of r / n after the bits in q, with the remainder
\* left (r < 2^5, so that r * 2^26 is an int of the model)
QuotientBits(r, n, q) ==
  [q |-> q * Pow2(26) + (r * Pow2(26)) \div n, r |-> (r * Pow2(26)) % n]

\* a / b for ints 0 <= a <= b, b > 0
truediv(a, b) ==
  IF a = 0 THEN FloatZero
  ELSE LET s == Normalized(a, b, 0)
           H == QuotientBits(s.a - b, b, 1)
           L == QuotientBits(H.r, b, 0)
           up == 2 * L.r > b \/ (2 * L.r = b /\ L.q % 2 = 1)
       IN  Rounded(0 - s.k, H.q, L.q, up)

\* the significand of y shifted right by d bits (1 <= d <= 53), with the round
\* bit and the sticky bit of what was shifted out
Shifted(y, d) ==
  IF d <= 26
  THEN LET rem == y.lo % Pow2(d)
       IN  [hi |-> y.hi \div Pow2(d),
            lo |-> (y.hi % Pow2(d)) * Pow2(26 - d) + y.lo \div Pow2(d),
            round |-> rem \div Pow2(d - 1),
            sticky |-> rem % Pow2(d - 1) # 0]
  ELSE LET rh == y.hi % Pow2(d - 26)
       IN  [hi |-> 0,
            lo |-> y.hi \div Pow2(d - 26),
            round |-> rh \div Pow2(d - 27),
            sticky |-> rh % Pow2(d - 27) # 0 \/ y.lo # 0]

\* x + y for floats 0 < y <= x
AddSmaller(x, y) ==
  LET d == x.e - y.e
      s == IF d = 0 THEN [hi |-> y.hi, lo |-> y.lo, round |-> 0, sticky |-> FALSE]
           ELSE Shifted(y, d)
      lo1 == (x.lo + s.lo) % Pow2(26)
      hi1 == x.hi + s.hi + (x.lo + s.lo) \div Pow2(26)
  IN  IF d >= 54 THEN x
      ELSE IF hi1 < Pow2(27)
      THEN Rounded(x.e, hi1, lo1, s.round = 1 /\ (s.sticky \/ lo1 % 2 = 1))
      ELSE LET lo2 == lo1 \div 2 + (hi1 % 2) * Pow2(25)
               hi2 == hi1 \div 2
           IN  Rounded(x.e + 1, hi2, lo2,
                       lo1 % 2 = 1 /\ (s.round = 1 \/ s.sticky \/ lo2 % 2 = 1))

\* x < y
float_lt(x, y) ==
  /\ y.hi # 0
  /\ \/ x.hi = 0
     \/ x.e < y.e
     \/ x.e = y.e /\ (x.hi < y.hi \/ (x.hi = y.hi /\ x.lo < y.lo))

\* x + y
float_add(x, y) ==
  IF x.hi = 0 THEN y
  ELSE IF y.hi = 0 THEN x
  ELSE IF float_lt(x, y) THEN AddSmaller(y, x)
  ELSE AddSmaller(x, y)

\* a min that returns its first argument
min_first(a, b) == a

\* min(a, b): b when b < a, else a
min(a, b) == IF float_lt(b, a) THEN b ELSE a

\* prob.get(state, 0), the probability being the float v / total
get(prob, state) ==
  IF state \in DOMAIN prob THEN truediv(prob[state].num, prob[state].den)
  ELSE FloatZero

\* sum(...) adds the terms to 0 from left to right, in the order in which the
\* set all_states is iterated; that order follows the hashes of the strings,
\* which differ from one process to the next, so every order is possible
\* (CPython before 3.12; later versions compensate the rounding of each step)
RECURSIVE SumFrom(_, _, _)
SumFrom(acc, term, states) ==
  IF states = {} THEN {acc}
  ELSE UNION {SumFrom(float_add(acc, term[state]), term, states \ {state})
              : state \in states}

\* the sum without the min: sum(prob1.get(state, 0) for state in all_states)
Similarity_nomin(prob1, prob2) ==
  LET all_states == (DOMAIN prob1) \cup (DOMAIN prob2)
  IN  SumFrom(FloatZero, [state \in all_states |-> get(prob1, state)], all_states)

\* sum(min(prob1.get(state, 0), prob2.get(state, 0)) for state in all_states):
\* the values it can have
Similarity(prob1, prob2) ==
  LET all_states == (DOMAIN prob1) \cup (DOMAIN prob2)
  IN  SumFrom(FloatZero,
              [state \in all_states |-> min(get(prob1, state), get(prob2, state))],
              all_states)

\* the entry for one pair, or the exception computing it raises:
\* .keys() of None, and the division by a zero execution_time
Compare(results, b1, b2) ==
  LET prob1 == results[b1].probabilities
      prob2 == results[b2].probabilities
      t1 == results[b1].execution_time
      t2 == results[b2].execution_time
  IN  IF IsNone(prob1) \/ IsNone(prob2) THEN {Propagated(AttributeError)}
      ELSE IF IsNone(t1) \/ IsNone(t2)
      THEN {Propagated(Exc("TypeError", "unsupported operand type(s) for /"))}
      ELSE IF The(t2) = 0 THEN {Propagated(ZeroDivisionError)}
      ELSE {Returned([similarity |-> similarity,
                      time_ratio |-> Frac(The(t1), The(t2))])
            : similarity \in Similarity(The(prob1), The(prob2))}

\* the pairs (i, j), i < j, of positions in backend_names, in loop order
RECURSIVE PairsFrom(_, _, _)
PairsFrom(n, i, j) ==
  IF i > n THEN <<>>
  ELSE IF j > n THEN PairsFrom(n, i + 1, i + 2)
  ELSE <<<<i, j>>>> \o PairsFrom(n, i, j + 1)

RECURSIVE CompareFrom(_, _, _, _, _)
CompareFrom(results, backend_names, pairs, k, comparison) ==
  IF k > Len(pairs) THEN {Returned(comparison)}
  ELSE LET b1 == backend_names[pairs[k][1]]
           b2 == backend_names[pairs[k][2]]
       IN  UNION { IF IsSome(entry.raised) THEN {Propagated(The(entry.raised))}
                   ELSE CompareFrom(results, backend_names, pairs, k + 1,
                                    Put(comparison, <<b1, b2>>, The(entry.value)))
                   : entry \in Compare(results, b1, b2) }

\* comparison = {}; if len(results) >= 2: ...
Comparison(results, order) ==
  IF Cardinality(DOMAIN results) >= 2
  THEN CompareFrom(results, order, PairsFrom(Len(order), 1, 2), 1, EmptyDict)
  ELSE {Returned(EmptyDict)}

\* the part of execute_multi_backend after the loop: the ways it can end
Aggregate(L, num_qubits, gates, shots) ==
  { IF IsSome(comparison.raised)
    THEN ToolRaised(The(comparison.raised), L.calls, L.self)
    ELSE ToolReturned([ results |-> L.results, order |-> L.order,
                        errors |-> L.errors,
                        comparison |-> The(comparison.value),
                        num_backends_executed |-> Cardinality(DOMAIN L.results),
                        metadata |-> [num_qubits |-> num_qubits,
                                      num_gates |-> Len(gates), shots |-> shots] ],
                      L.calls, L.self)
    : comparison \in Comparison(L.results, L.order) }

Server_execute_multi_backend(BK, self, num_qubits, gates, backends, shots) ==
  UNION { Aggregate(L, num_qubits, gates, shots)
          : L \in Loop(BK, {LoopStart(self)}, backends, 1, num_qubits, gates, shots) }

(***************************************************************************)
(* The availability probe.  check_backend_availability tries to import     *)
(* each library and assigns the outcome to the global BACKEND_STATUS; an   *)
(* installation is given by the set of libraries it can import.  The       *)
(* libraries of the registered adapters were imported when the server      *)
(* module was loaded, so the probe finds them.                             *)
(***************************************************************************)
Environments == {ServerBACKENDS, Adapters, BackendType}

check_backend_availability(BK) ==
  { [name \in BackendType |-> name \in env]
    : env \in {e \in Environments : BK \subseteq e} }

\* list_backends: the response built from the status the probe returned
list_backends(status) ==
  LET backend_info == [name \in BackendType |->
                         [available |-> IF name \in DOMAIN status THEN status[name]
                                        ELSE FALSE]]
  IN  [total_backends |-> Cardinality(DOMAIN backend_info),
       available_backends |->
         Cardinality({name \in DOMAIN backend_info : backend_info[name].available}),
       backends |-> backend_info]

(***************************************************************************)
(* get_circuit_info and to_qasm of the adapters.  The QASM text is given   *)
(* by the circuit it declares; str(op.gate) of Cirq and the operation name *)
(* of Qiskit are given by the native gate name.  measure_all of Qiskit     *)
(* adds a barrier and one measure per qubit, Cirq one measurement          *)
(* operation on all qubits, pytket one Measure per qubit.                  *)
(***************************************************************************)
CircuitInfo(num_qubits, num_gates, depth, gate_types, backend) ==
  [num_qubits |-> num_qubits, num_gates |-> num_gates, depth |-> depth,
   gate_types |-> gate_types, backend |-> backend]

\* depth() of Qiskit and pytket, and the number of moments Cirq's append
\* (earliest moment after the last operation on any of its qubits) leaves:
\* an operation lies one level above the highest level on its qubits.
\* `on` gives the qubits of each operation in order; `level` the level
\* reached on each qubit so far.
RECURSIVE LevelsFrom(_, _, _, _)
LevelsFrom(on, i, level, deepest) ==
  IF i > Len(on) THEN deepest
  ELSE LET below == {Get(level, q, 0) : q \in Range(on[i])}
           here == 1 + (IF below = {} THEN 0
                        ELSE CHOOSE m \in below : \A n \in below : n <= m)
           raised == [q \in (DOMAIN level) \cup Range(on[i]) |->
                        IF q \in Range(on[i]) THEN here ELSE level[q]]
       IN  LevelsFrom(on, i + 1, raised, IF here > deepest THEN here ELSE deepest)

depth(on) == LevelsFrom(on, 1, EmptyDict, 0)

get_circuit_info(b, self, circuit) ==
  LET measured == {i \in 1..Len(circuit.clbits) : circuit.clbits[i] >= 0}
      names == {circuit.ops[i].name : i \in 1..Len(circuit.ops)}
      touched == UNION {Range(circuit.ops[i].qubits) : i \in 1..Len(circuit.ops)}
                   \cup {circuit.clbits[i] : i \in measured}
      \* the gates, and the measurement of every measured qubit after them
      levels == depth([i \in 1..Len(circuit.ops) |-> circuit.ops[i].qubits])
                  + (IF measured # {} THEN 1 ELSE 0)
  IN  CASE b = "qiskit" ->
             Returned(CircuitInfo(circuit.num_qubits,
                        Len(circuit.ops)
                          + (IF circuit.regs # <<>> THEN 1 + Cardinality(measured) ELSE 0),
                        levels,
                        names \cup (IF circuit.regs # <<>> THEN {"barrier"} ELSE {})
                              \cup (IF measured # {} THEN {"measure"} ELSE {}),
                        b))
        [] b = "pennylane" ->
             Returned(CircuitInfo(self.last_num_qubits, Len(circuit.gates),
                        Len(circuit.gates),
                        {circuit.gates[i].type : i \in 1..Len(circuit.gates)}, b))
        [] b = "cirq" ->
             Returned(CircuitInfo(Cardinality(touched),
                        Len(circuit.ops) + (IF measured # {} THEN 1 ELSE 0),
                        levels,
                        names \cup (IF measured # {} THEN {"measure"} ELSE {}), b))
        [] b = "pytket" ->
             Returned(CircuitInfo(circuit.num_qubits,
                        Len(circuit.ops) + Cardinality(measured), levels, {}, b))

to_qasm(b, circuit) ==
  IF b = "pennylane"
  THEN Propagated(Exc("NotImplementedError", "PennyLane QASM export not implemented"))
  ELSE Returned(Qasm(circuit.num_qubits, circuit.ops, circuit.clbits, circuit.regs))

(***************************************************************************)
(* server.py: create_circuit and the tools that build their own gate list. *)
(***************************************************************************)
CreatedDict(backend, info, qasm) ==
  [keys |-> {"success", "backend", "circuit_info", "qasm", "circuit_id"},
   success |-> Some(TRUE), error |-> None, backend |-> Some(backend),
   circuit_info |-> Some(info), qasm |-> Some(qasm)]

Server_create_circuit(BK, self, num_qubits, gates, backend, measure) ==
  IF backend \notin BK
  THEN {ToolReturned(ErrorOnly("Backend not supported or not loaded"), <<>>, self)}
  ELSE
    LET backend_obj == backend
        circuit_def == CircuitDef(gates, measure)
        Described(created, instance) ==
          LET first == <<Invocation("create_circuit", backend, Ended(created))>>
              Respond(info, qasm) ==
                LET second == first \o <<Invocation("get_circuit_info", backend,
                                                     Ended(info))>>
                    third == second \o <<Invocation("to_qasm", backend, Ended(qasm))>>
                IN  IF IsSome(info.raised)
                    THEN {ToolReturned(FailureDict(str(The(info.raised)), backend),
                                       second, instance)}
                    ELSE IF IsSome(qasm.raised)
                    THEN {ToolReturned(FailureDict(str(The(qasm.raised)), backend),
                                       third, instance)}
                    ELSE {ToolReturned(CreatedDict(backend, The(info.value),
                                                   The(qasm.value)),
                                       third, instance)}
          IN  IF IsSome(created.raised)
              THEN {ToolReturned(FailureDict(str(The(created.raised)), backend),
                                 first, instance)}
              ELSE Respond(get_circuit_info(backend_obj, instance, The(created.value)),
                           to_qasm(backend_obj, The(created.value)))
    IN  Described(create_circuit(backend_obj, num_qubits, circuit_def),
                  create_circuit_self(backend_obj, self, num_qubits, circuit_def))

BellGates == <<Gate("h", <<0>>, <<>>), Gate("cx", <<0, 1>>, <<>>)>>

\* for i in range(1, num_qubits): gates.append({'type': 'cx', 'qubits': [0, i]})
RECURSIVE AppendCx(_, _, _)
AppendCx(gates, i, num_qubits) ==
  IF i >= num_qubits THEN gates
  ELSE AppendCx(Append(gates, Gate("cx", <<0, i>>, <<>>)), i + 1, num_qubits)

\* a generator that entangles neighbours instead of qubit 0 with every other
GhzGates_chain(num_qubits) ==
  <<Gate("h", <<0>>, <<>>)>>
    \o [i \in 1..(num_qubits - 1) |-> Gate("cx", <<i - 1, i>>, <<>>)]

GhzGates(num_qubits) == AppendCx(<<Gate("h", <<0>>, <<>>)>>, 1, num_qubits)

TeleportationGates ==
  << Gate("h", <<1>>, <<>>), Gate("cx", <<1, 2>>, <<>>), Gate("h", <<0>>, <<>>),
     Gate("cx", <<0, 1>>, <<>>), Gate("h", <<0>>, <<>>) >>

\* create_bell_state, quantum_teleportation and create_ghz_state: the gate list
\* the tool builds, and return execute_circuit(...); `gates` is the list the
\* call built, None when it returned before it built one
Server_generated(BK, self, tool, num_qubits, backend, shots) ==
  IF tool = "create_ghz_state" /\ num_qubits < 2
  THEN {ToolReturned(ErrorOnly("GHZ state requires at least 2 qubits"), <<>>, self)
          @@ [gates |-> None]}
  ELSE LET gates == CASE tool = "create_bell_state" -> BellGates
                      [] tool = "create_ghz_state" -> GhzGates(num_qubits)
                      [] tool = "quantum_teleportation" -> TeleportationGates
       IN  { out @@ [gates |-> Some(gates)]
             : out \in Server_execute_circuit(BK, self, num_qubits, gates, backend,
                                              shots, None) }

\* benchmark_backends: the gate list of the circuit type
RECURSIVE RandomLoop(_, _, _)
RandomLoop(gates, i, num_qubits) ==
  IF i >= num_qubits * 2 THEN gates
  ELSE LET first == Append(gates, Gate("h", <<i % num_qubits>>, <<>>))
       IN  RandomLoop(IF i < num_qubits - 1
                      THEN Append(first, Gate("cx", <<i % num_qubits,
                                                      (i + 1) % num_qubits>>, <<>>))
                      ELSE first,
                      i + 1, num_qubits)

BenchmarkGates(circuit_type, num_qubits) ==
  IF circuit_type = "bell" /\ num_qubits = 2 THEN BellGates
  ELSE IF circuit_type = "ghz" THEN AppendCx(<<Gate("h", <<0>>, <<>>)>>, 1, num_qubits)
  ELSE RandomLoop(<<>>, 0, num_qubits)

\* the keys of BACKEND_STATUS in the order the probe inserted them
StatusOrder == <<"qiskit", "pennylane", "cirq", "pytket", "classiq">>

Server_benchmark_backends(BK, STATUS, self, circuit_type, num_qubits, shots) ==
  LET gates == BenchmarkGates(circuit_type, num_qubits)
      IsAvailable(name) == name \in DOMAIN STATUS /\ STATUS[name]
      available_backends == SelectSeq(StatusOrder, IsAvailable)
      IsRegistered(name) == name \in BK
      backends == SelectSeq(available_backends, IsRegistered)
  IN  { out @@ [gates |-> Some(gates), backends |-> backends]
        : out \in Server_execute_multi_backend(BK, self, num_qubits, gates, backends,
                                                shots) }

(***************************************************************************)
(* server_mcp.py: call_tool.  arguments is {backend, shots, num_qubits,    *)
(* gates}, an absent key None; the JSON text returned is given by the      *)
(* object it serialises.  call_tool has no try: what create_circuit        *)
(* raises leaves it.                                                       *)
(***************************************************************************)
Arguments(backend, shots, num_qubits, gates) ==
  [backend |-> backend, shots |-> shots, num_qubits |-> num_qubits, gates |-> gates]

KeyError(key) == Exc("KeyError", key)

McpFailure(msg, backend_name) ==
  [keys |-> {"error", "backend"}, success |-> None, error |-> Some(msg),
   backend |-> Some(backend_name), counts |-> None, probabilities |-> None,
   execution_time |-> None, metadata |-> None]

McpSuccess(backend_name, result) ==
  [keys |-> {"success", "backend", "counts", "probabilities", "execution_time"},
   success |-> Some(TRUE), error |-> None, backend |-> Some(backend_name),
   counts |-> result.counts, probabilities |-> result.probabilities,
   execution_time |-> result.execution_time, metadata |-> None]

\* circuit = backend.create_circuit(...); result = backend.execute_circuit(...)
\* and the response built from result
McpRun(backend_name, self, num_qubits, gates, shots) ==
  LET backend == backend_name
      circuit_def == CircuitDef(gates, TRUE)
      Run(created, instance) ==
        LET first == <<Invocation("create_circuit", backend_name, Ended(created))>>
        IN  IF IsSome(created.raised)
            THEN {ToolRaised(The(created.raised), first, instance)}
            ELSE
              { LET calls == first \o <<Invocation("execute_circuit", backend_name,
                                                   ExecuteEnded(out))>>
                IN  IF IsSome(out.raised)
                    THEN ToolRaised(The(out.raised), calls, instance)
                    ELSE IF Truthy(The(out.value).error)
                    THEN ToolReturned(McpFailure(The(The(out.value).error),
                                                 backend_name), calls, instance)
                    ELSE ToolReturned(McpSuccess(backend_name, The(out.value)),
                                      calls, instance)
                : out \in execute_circuit(backend, instance, The(created.value), shots) }
  IN  { end @@ [gates |-> Some(gates)]
        : end \in Run(create_circuit(backend, num_qubits, circuit_def),
                      create_circuit_self(backend, self, num_qubits, circuit_def)) }

Mcp_call_tool(BK, self, name, arguments) ==
  LET Ends(resp) == {ToolReturned(resp, <<>>, self) @@ [gates |-> None]}
      Fails(e) == {ToolRaised(e, <<>>, self) @@ [gates |-> None]}
      backend_name == IF IsSome(arguments.backend) THEN The(arguments.backend)
                      ELSE "qiskit"
      shots == arguments.shots
      Missing(key) == IsNone(arguments[key])
  IN  IF name = "list_backends"
      THEN Ends([backends |-> [b \in Adapters |-> [available |-> b \in BK]]])
      ELSE IF backend_name \notin BK THEN Ends(ErrorOnly("Backend not available"))
      ELSE IF name \notin {"create_bell_state", "create_ghz_state", "execute_circuit"}
      THEN Ends(ErrorOnly("Unknown tool"))
      ELSE IF name # "create_bell_state" /\ Missing("num_qubits")
      THEN Fails(KeyError("num_qubits"))
      ELSE IF name = "create_ghz_state" /\ The(arguments.num_qubits) < 2
      THEN Ends(ErrorOnly("GHZ needs >= 2 qubits"))
      ELSE IF name = "execute_circuit" /\ Missing("gates")
      THEN Fails(KeyError("gates"))
      ELSE LET num_qubits == IF name = "create_bell_state" THEN 2
                             ELSE The(arguments.num_qubits)
               gates == CASE name = "create_bell_state" -> BellGates
                          [] name = "create_ghz_state" -> GhzGates(num_qubits)
                          [] name = "execute_circuit" -> The(arguments.gates)
           IN  McpRun(backend_name, self, num_qubits, gates, shots)

(***************************************************************************)
(* State.                                                                  *)
(*   req        the caller's request: num_qubits and the gate list         *)
(*   pennylane  the attributes of the PennyLaneBackend instance            *)
(*   circuit    the native circuit the caller holds (None before the first *)
(*              create_circuit / from_qasm), with how it was made          *)
(*   ret        how the last call ended: the call, its arguments, the      *)
(*              exception that left it or the value it returned, the shots *)
(*              the engine drew and the exception the adapter caught       *)
(*   BACKENDS   the registry: the ids of the registered adapter instances  *)
(*   BACKEND_STATUS  the status the availability probe stored last, {}     *)
(*              before the first probe                                     *)
(*   calls      the adapter invocations the last tool call made, in order  *)
(***************************************************************************)
VARIABLES req, pennylane, circuit, ret, BACKENDS, BACKEND_STATUS, calls

vars == <<req, pennylane, circuit, ret, BACKENDS, BACKEND_STATUS, calls>>

\* test_top20_algorithms.py: algo_half_adder
HalfAdder ==
  Request(4, << Gate("x", <<0>>, <<>>), Gate("x", <<1>>, <<>>),
                Gate("ccx", <<0, 1, 3>>, <<>>),
                Gate("cx", <<0, 2>>, <<>>), Gate("cx", <<1, 2>>, <<>>) >>)

Fixtures == {HalfAdder}

Held(b, native, nq, origin) ==
  [backend |-> b, native |-> native, num_qubits |-> nq, origin |-> origin]

NoCall ==
  [op |-> "none", backend |-> "", shots |-> 0, circuit |-> NoCircuit,
   raised |-> None, value |-> None, shot |-> EmptyDict, caught |-> None]

Call(op, b, shots, c, out) ==
  [op |-> op, backend |-> b, shots |-> shots, circuit |-> c,
   raised |-> out.raised, value |-> out.value, shot |-> out.shot,
   caught |-> out.caught]

\* a tool call, as the caller of the server sees it
ToolCall(op, backends, shots, qasm, out) ==
  [op |-> op, backends |-> backends, shots |-> shots, qasm |-> qasm,
   raised |-> out.raised, value |-> out.value]

Init ==
  /\ req \in {Request(nq, <<>>) : nq \in NumQubitsInputs} \cup Fixtures
  /\ pennylane = PennyLane_init
  /\ circuit = None
  /\ ret = NoCall
  /\ BACKENDS = ServerBACKENDS
  /\ BACKEND_STATUS = EmptyDict
  /\ calls = <<>>

\* the caller assembles the gate list before it calls anything
AddGate(g, limit) ==
  /\ ret.op = "none"
  /\ Len(req.gates) < limit
  /\ req' = [req EXCEPT !.gates = Append(@, g)]
  /\ UNCHANGED <<pennylane, circuit, ret, BACKENDS, BACKEND_STATUS, calls>>

\* circuit = backend.create_circuit(num_qubits, {'gates': gates, 'measure': m})
CreateCircuit(b, measure) ==
  LET circuit_def == CircuitDef(req.gates, measure)
      out == create_circuit(b, req.num_qubits, circuit_def)
  IN  /\ pennylane' = create_circuit_self(b, pennylane, req.num_qubits, circuit_def)
      /\ circuit' = IF IsSome(out.raised) THEN circuit
                    ELSE Some(Held(b, The(out.value), req.num_qubits, "create_circuit"))
      /\ ret' = Call("create_circuit", b, 0, NoCircuit,
                     [raised |-> out.raised, value |-> None, shot |-> EmptyDict,
                      caught |-> None])
      /\ UNCHANGED <<req, BACKENDS, BACKEND_STATUS, calls>>

\* circuit = backend.from_qasm(qasm), for a caller that sends no gate list
FromQasm(b, qasm_str) ==
  LET out == from_qasm(b, qasm_str)
  IN  /\ req.gates = <<>>
      /\ circuit' = IF IsSome(out.raised) THEN circuit
                    ELSE Some(Held(b, The(out.value), The(out.value).num_qubits,
                                   "from_qasm"))
      /\ ret' = Call("from_qasm", b, 0, NoCircuit,
                     [raised |-> out.raised, value |-> None, shot |-> EmptyDict,
                      caught |-> None])
      /\ UNCHANGED <<req, pennylane, BACKENDS, BACKEND_STATUS, calls>>

\* result = backend.execute_circuit(circuit, shots=shots), on the circuit the
\* caller got from this backend, or on None
ExecuteCircuit(b, shots) ==
  LET c == IF IsSome(circuit) THEN The(circuit).native ELSE NoCircuit
  IN  /\ IsSome(circuit) => The(circuit).backend = b
      /\ \E out \in execute_circuit(b, pennylane, c, shots) :
           ret' = Call("execute_circuit", b, shots, c, out)
      /\ UNCHANGED <<req, pennylane, circuit, BACKENDS, BACKEND_STATUS, calls>>

\* info = backend.get_circuit_info(circuit), on the circuit create_circuit of
\* this backend returned
GetCircuitInfo(b) ==
  /\ IsSome(circuit)
  /\ The(circuit).backend = b
  /\ The(circuit).origin = "create_circuit"
  /\ ret' = Call("get_circuit_info", b, 0, The(circuit).native,
                 get_circuit_info(b, pennylane, The(circuit).native)
                   @@ [shot |-> EmptyDict, caught |-> None])
  /\ UNCHANGED <<req, pennylane, circuit, BACKENDS, BACKEND_STATUS, calls>>

Next ==
  \/ \E g \in GateInputs : AddGate(g, MaxGates)
  \/ \E b \in Adapters, measure \in BOOLEAN : CreateCircuit(b, measure)
  \/ \E b \in Adapters : GetCircuitInfo(b)
  \/ \E b \in Adapters, qasm_str \in QasmInputs : FromQasm(b, qasm_str)
  \/ \E b \in Adapters, shots \in ShotsInputs : ExecuteCircuit(b, shots)

Spec == Init /\ [][Next]_vars

(***************************************************************************)
(* The server tools (SpecServer).  The registry is the one server.py or    *)
(* the one server_mcp.py builds at import; a tool call is one step, and    *)
(* the tools are called one after the other.                               *)
(***************************************************************************)
MaxServerGates == 1
MaxBackends == 2

BackendLists == UNION {[1..n -> BackendType] : n \in 0..MaxBackends}

InitServer ==
  /\ req \in {Request(nq, <<>>) : nq \in NumQubitsInputs}
  /\ pennylane = PennyLane_init
  /\ circuit = None
  /\ ret = NoCall
  /\ BACKENDS \in {ServerBACKENDS, McpBACKENDS}
  /\ BACKEND_STATUS = EmptyDict
  /\ calls = <<>>

\* execute_circuit(num_qubits, gates, backend, shots, qasm); a caller that
\* sends qasm sends no gate list
ToolExecuteCircuit(backend, shots, qasm) ==
  /\ ret.op = "none"
  /\ IsSome(qasm) => req.gates = <<>>
  /\ \E out \in Server_execute_circuit(BACKENDS, pennylane, req.num_qubits,
                                       req.gates, backend, shots, qasm) :
       /\ ret' = ToolCall("server.execute_circuit", <<backend>>, shots, qasm, out)
       /\ calls' = out.calls
       /\ pennylane' = out.self
  /\ UNCHANGED <<req, circuit, BACKENDS, BACKEND_STATUS>>

\* an execute_multi_backend that runs the engines the probe reported available
ToolExecuteMultiBackend_gated(backends, shots) ==
  LET IsAvailable(name) == name \in DOMAIN BACKEND_STATUS /\ BACKEND_STATUS[name]
  IN  /\ ret.op = "none"
      /\ \E out \in Server_execute_multi_backend(BACKENDS, pennylane, req.num_qubits,
                                                 req.gates,
                                                 SelectSeq(backends, IsAvailable),
                                                 shots) :
           /\ ret' = ToolCall("execute_multi_backend", backends, shots, None, out)
           /\ calls' = out.calls
           /\ pennylane' = out.self
      /\ UNCHANGED <<req, circuit, BACKENDS, BACKEND_STATUS>>

\* execute_multi_backend(num_qubits, gates, backends, shots)
ToolExecuteMultiBackend(backends, shots) ==
  /\ ret.op = "none"
  /\ \E out \in Server_execute_multi_backend(BACKENDS, pennylane, req.num_qubits,
                                             req.gates, backends, shots) :
       /\ ret' = ToolCall("execute_multi_backend", backends, shots, None, out)
       /\ calls' = out.calls
       /\ pennylane' = out.self
  /\ UNCHANGED <<req, circuit, BACKENDS, BACKEND_STATUS>>

\* the caller has read the response; its next request follows
NextRequest ==
  /\ ret.op # "none"
  /\ ret' = NoCall
  /\ calls' = <<>>
  /\ UNCHANGED <<req, pennylane, circuit, BACKENDS, BACKEND_STATUS>>

NextServer ==
  \/ \E g \in GateInputs : AddGate(g, MaxServerGates)
  \/ NextRequest
  \/ \E backend \in BackendType, shots \in ShotsInputs,
        qasm \in {None} \cup {Some(q) : q \in QasmInputs} :
        ToolExecuteCircuit(backend, shots, qasm)
  \/ \E backends \in BackendLists, shots \in ShotsInputs :
        ToolExecuteMultiBackend(backends, shots)

SpecServer == InitServer /\ [][NextServer]_vars

(***************************************************************************)
(* The tools of the two servers (SpecTools).  server.py runs with its own  *)
(* registry and its nine tools; server_mcp.py runs with its registry and   *)
(* call_tool.  When server.py is run as a script it probes the libraries   *)
(* before it serves; when it is imported BACKEND_STATUS is still {} at the *)
(* first tool call.  server_mcp.py has no probe.                           *)
(***************************************************************************)
MaxBenchmarkShots == 1

InitTools ==
  /\ req \in {Request(nq, <<>>) : nq \in NumQubitsInputs}
  /\ pennylane = PennyLane_init
  /\ circuit = None
  /\ ret = NoCall
  /\ BACKENDS \in {ServerBACKENDS, McpBACKENDS}
  /\ BACKEND_STATUS \in {EmptyDict} \cup
       (IF BACKENDS = ServerBACKENDS THEN check_backend_availability(BACKENDS) ELSE {})
  /\ calls = <<>>

\* how a tool call that built its own gate list ended
Generated(op, num_qubits, backends, shots, out) ==
  [op |-> op, num_qubits |-> num_qubits, backends |-> backends, shots |-> shots,
   qasm |-> None, gates |-> out.gates, raised |-> out.raised, value |-> out.value]

\* a list_backends that registers the engines the probe found
ToolListBackends_registering ==
  /\ ret.op = "none"
  /\ req.gates = <<>>
  /\ \E status \in check_backend_availability(BACKENDS) :
       /\ BACKEND_STATUS' = status
       /\ BACKENDS' = {name \in Adapters : status[name]}
       /\ ret' = ToolCall("list_backends", <<>>, 0, None,
                          Returned(list_backends(status)))
  /\ calls' = <<>>
  /\ UNCHANGED <<req, pennylane, circuit>>

\* list_backends()
ToolListBackends ==
  /\ ret.op = "none"
  /\ req.gates = <<>>
  /\ \E status \in check_backend_availability(BACKENDS) :
       /\ BACKEND_STATUS' = status
       /\ ret' = ToolCall("list_backends", <<>>, 0, None,
                          Returned(list_backends(status)))
  /\ calls' = <<>>
  /\ UNCHANGED <<req, pennylane, circuit, BACKENDS>>

\* create_circuit(num_qubits, gates, backend, measure), and get_circuit_qasm,
\* which calls it with measure=True
ToolCreateCircuit(tool, backend, measure) ==
  /\ ret.op = "none"
  /\ tool = "get_circuit_qasm" => measure
  /\ \E out \in Server_create_circuit(BACKENDS, pennylane, req.num_qubits, req.gates,
                                      backend, measure) :
       /\ ret' = ToolCall(tool, <<backend>>, 0, None, out)
       /\ calls' = out.calls
       /\ pennylane' = out.self
  /\ UNCHANGED <<req, circuit, BACKENDS, BACKEND_STATUS>>

\* create_bell_state(backend, shots), quantum_teleportation(backend, shots) and
\* create_ghz_state(num_qubits, backend, shots); the caller sends no gate list
ToolGenerated(tool, num_qubits, backend, shots) ==
  /\ ret.op = "none"
  /\ req.gates = <<>>
  /\ tool = "create_bell_state" => num_qubits = 2
  /\ tool = "quantum_teleportation" => num_qubits = 3
  /\ \E out \in Server_generated(BACKENDS, pennylane, tool, num_qubits, backend,
                                  shots) :
       /\ ret' = Generated(tool, num_qubits, <<backend>>, shots, out)
       /\ calls' = out.calls
       /\ pennylane' = out.self
  /\ UNCHANGED <<req, circuit, BACKENDS, BACKEND_STATUS>>

\* benchmark_backends(circuit_type, num_qubits, shots)
ToolBenchmarkBackends(circuit_type, num_qubits, shots) ==
  /\ ret.op = "none"
  /\ req.gates = <<>>
  /\ \E out \in Server_benchmark_backends(BACKENDS, BACKEND_STATUS, pennylane,
                                          circuit_type, num_qubits, shots) :
       /\ ret' = Generated("benchmark_backends", num_qubits, out.backends, shots, out)
       /\ calls' = out.calls
       /\ pennylane' = out.self
  /\ UNCHANGED <<req, circuit, BACKENDS, BACKEND_STATUS>>

\* server_mcp.py: call_tool(name, arguments); the caller sends num_qubits and
\* gates to the tools that read them
ToolCallTool(name, arguments) ==
  /\ ret.op = "none"
  /\ name # "execute_circuit" => (req.gates = <<>> /\ IsNone(arguments.gates))
  /\ name \notin {"execute_circuit", "create_ghz_state"} => IsNone(arguments.num_qubits)
  /\ \E out \in Mcp_call_tool(BACKENDS, pennylane, name, arguments) :
       /\ ret' = Generated("call_tool." \o name, arguments.num_qubits,
                           IF IsSome(arguments.backend) THEN <<The(arguments.backend)>>
                           ELSE <<"qiskit">>,
                           arguments.shots, out)
       /\ calls' = out.calls
       /\ pennylane' = out.self
  /\ UNCHANGED <<req, circuit, BACKENDS, BACKEND_STATUS>>

NextTools ==
  \/ \E g \in {Gate("x", <<0>>, <<>>), Gate("h", <<0>>, <<>>), Gate("cx", <<0, 0>>, <<>>)} :
        AddGate(g, MaxServerGates)
  \/ NextRequest
  \/ BACKENDS = ServerBACKENDS /\ ToolListBackends
  \/ \E tool \in {"create_circuit", "get_circuit_qasm"}, backend \in BackendType,
        measure \in BOOLEAN :
        BACKENDS = ServerBACKENDS /\ ToolCreateCircuit(tool, backend, measure)
  \/ \E backend \in BackendType, shots \in ShotsInputs :
        BACKENDS = ServerBACKENDS /\ ToolExecuteCircuit(backend, shots, None)
  \/ \E backends \in BackendLists, shots \in ShotsInputs :
        BACKENDS = ServerBACKENDS /\ ToolExecuteMultiBackend(backends, shots)
  \/ \E tool \in {"create_bell_state", "create_ghz_state", "quantum_teleportation"},
        num_qubits \in (-1)..MaxQubits, backend \in BackendType, shots \in ShotsInputs :
        BACKENDS = ServerBACKENDS /\ ToolGenerated(tool, num_qubits, backend, shots)
  \/ \E circuit_type \in {"bell", "ghz", "random"}, num_qubits \in (-1)..MaxQubits,
        shots \in 0..MaxBenchmarkShots :
        BACKENDS = ServerBACKENDS
          /\ ToolBenchmarkBackends(circuit_type, num_qubits, shots)
  \/ \E name \in {"list_backends", "create_bell_state", "create_ghz_state",
                  "execute_circuit", "run"},
        backend \in {None} \cup {Some(b) : b \in BackendType},
        shots \in ShotsInputs,
        num_qubits \in {None, Some(1), Some(req.num_qubits)},
        gates \in {None, Some(req.gates)} :
        BACKENDS = McpBACKENDS
          /\ ToolCallTool(name, Arguments(backend, shots, num_qubits, gates))

SpecTools == InitTools /\ [][NextTools]_vars

(***************************************************************************)
(* Properties of the adapters (Spec).                                      *)
(***************************************************************************)
Executed == ret.op = "execute_circuit"
Result == The(ret.value)
Successful == Executed /\ IsSome(ret.value) /\ Result.metadata.success
FromCreate == IsSome(circuit) /\ The(circuit).origin = "create_circuit"

XOn0 == Gate("x", <<0>>, <<>>)

\* the string that has qubit q of basis state s as its character q (0 = leftmost)
QubitString(s) == [i \in 1..Len(s) |-> IF s[i] = 1 THEN "1" ELSE "0"]

\* C1: on every adapter, for a circuit made by create_circuit and measured on
\* all its N qubits, the keys of counts are exactly the strings of length N that
\* show qubit 0 leftmost and qubit N-1 rightmost for the shots the engine drew,
\* each with the number of shots that gave it; so x on qubit 0 gives the key
\* "1" followed by zeros.
C1_BitOrder ==
  (Successful /\ FromCreate) =>
     LET counts == The(Result.counts)
         N == The(circuit).num_qubits
     IN  /\ DOMAIN counts = {QubitString(s) : s \in DOMAIN ret.shot}
         /\ \A s \in DOMAIN ret.shot :
              /\ Len(s) = N
              /\ counts[QubitString(s)] = ret.shot[s]
         /\ (req.gates = <<XOn0>> /\ ret.shots > 0) =>
              DOMAIN counts = {[i \in 1..N |-> IF i = 1 THEN "1" ELSE "0"]}

C1_Witness ==
  /\ Successful /\ FromCreate
  /\ ret.backend = "qiskit"
  /\ req = Request(MaxQubits - 1, <<XOn0>>)
  /\ DOMAIN The(Result.counts) = {[i \in 1..(MaxQubits - 1) |-> IF i = 1 THEN "1" ELSE "0"]}

\* the reference meaning of a classical reversible gate list on bits
ClassicalNames == {"x", "cx", "cnot", "ccx", "toffoli", "swap"}

ClassicalArity(t) ==
  CASE t = "x" -> 1
    [] t \in {"cx", "cnot", "swap"} -> 2
    [] OTHER -> 3

IsClassical(r) ==
  /\ r.num_qubits > 0
  /\ \A i \in 1..Len(r.gates) :
       LET g == r.gates[i]
       IN  /\ g.type \in ClassicalNames
           /\ Len(g.qubits) = ClassicalArity(g.type)
           /\ InRange(g.qubits, r.num_qubits)
           /\ Distinct(g.qubits)

ClassicalStep(g, bits) ==
  LET q == g.qubits
      on(i) == bits[q[i] + 1] = 1
      not(i) == [bits EXCEPT ![q[i] + 1] = 1 - @]
  IN  CASE g.type = "x" -> not(1)
        [] g.type \in {"cx", "cnot"} -> IF on(1) THEN not(2) ELSE bits
        [] g.type \in {"ccx", "toffoli"} -> IF on(1) /\ on(2) THEN not(3) ELSE bits
        [] g.type = "swap" ->
             [bits EXCEPT ![q[1] + 1] = bits[q[2] + 1], ![q[2] + 1] = bits[q[1] + 1]]

RECURSIVE ClassicalFinal(_, _, _)
ClassicalFinal(gates, i, bits) ==
  IF i > Len(gates) THEN bits
  ELSE ClassicalFinal(gates, i + 1, ClassicalStep(gates[i], bits))

Expected(r) == QubitString(ClassicalFinal(r.gates, 1, [i \in 1..r.num_qubits |-> 0]))

\* C2: for a circuit of classical reversible gates only (x, cx, ccx, swap) on
\* the all-zero state, a successful run on any of the four adapters returns one
\* key, the same on every adapter: the string whose character i is the final
\* value of qubit i; the half adder gives "1101".
C2_ClassicalAgreement ==
  (Successful /\ FromCreate /\ IsClassical(req) /\ ret.shots > 0) =>
     /\ DOMAIN The(Result.counts) = {Expected(req)}
     /\ req = HalfAdder => DOMAIN The(Result.counts) = {<<"1", "1", "0", "1">>}

C2_Witness ==
  /\ Successful /\ FromCreate
  /\ ret.backend = "cirq"
  /\ req = HalfAdder
  /\ DOMAIN The(Result.counts) = {<<"1", "1", "0", "1">>}

\* C3: every key of counts and of probabilities of a successful result has
\* length N, the number of qubits of the circuit executed, whether the circuit
\* came from create_circuit or from from_qasm.
C3_KeyLength ==
  (Successful /\ IsSome(circuit)) =>
     /\ \A k \in DOMAIN The(Result.counts) : Len(k) = The(circuit).num_qubits
     /\ \A k \in DOMAIN The(Result.probabilities) : Len(k) = The(circuit).num_qubits

\* a fraction equals one
IsOne(nums, den) == den # 0 /\ nums = den

\* C4: in every successful result, for every shots value, probabilities has the
\* key set of counts, each probability is count / sum(counts), and the
\* probabilities sum to 1.
C4_Probabilities ==
  Successful =>
     LET counts == The(Result.counts)
         probabilities == The(Result.probabilities)
     IN  /\ DOMAIN probabilities = DOMAIN counts
         /\ \A k \in DOMAIN counts :
              probabilities[k] = [num |-> counts[k], den |-> sum(counts)]
         /\ IsOne(sum([k \in DOMAIN probabilities |-> probabilities[k].num]),
                  sum(counts))

SuccessShape(r) ==
  /\ IsSome(r.counts) /\ IsSome(r.probabilities)
  /\ IsNone(r.error) /\ r.metadata.success = TRUE

FailureShape(r) ==
  /\ IsSome(r.error)
  /\ IsNone(r.counts) /\ IsNone(r.probabilities)
  /\ r.metadata.success = FALSE

\* C5: every CircuitResult execute_circuit returns has exactly one of two
\* shapes: counts and probabilities set, no error, success true; or error set,
\* no counts, no probabilities, success false.
C5_TwoShapes ==
  (Executed /\ IsSome(ret.value)) =>
     /\ SuccessShape(Result) \/ FailureShape(Result)
     /\ ~(SuccessShape(Result) /\ FailureShape(Result))
     /\ ~(IsSome(Result.error) /\ IsSome(Result.counts))
     /\ ~(IsNone(Result.error) /\ IsNone(Result.counts))

C5_Witness ==
  /\ Executed /\ IsSome(ret.value)
  /\ FailureShape(Result)
  /\ ret.backend = "cirq" /\ FromCreate
  /\ ~HasMeasure(ret.circuit)
  /\ Result.error = Some("Circuit has no measurements to sample.")

\* C6: execute_circuit returns a CircuitResult for every input and lets no
\* exception out: whatever was raised inside it (by the engine or by the
\* adapter's own processing) is in the result as the error string, with
\* success false.
C6_NeverRaises ==
  Executed =>
     /\ IsNone(ret.raised)
     /\ IsSome(ret.value)
     /\ IsSome(ret.caught) =>
          /\ Result.error = Some(The(ret.caught).msg)
          /\ Result.metadata.success = FALSE

C6_Witness ==
  /\ Executed
  /\ ret.backend = "pennylane"
  /\ IsSome(ret.caught) /\ The(ret.caught) \in EngineFailures
  /\ IsSome(ret.value) /\ Result.error = Some(The(ret.caught).msg)

\* C7: an exception raised while an adapter translates a circuit
\* (create_circuit) is turned into a CircuitResult with error set at the adapter
\* boundary; it never reaches the caller as an exception.
C7_CreateNeverRaises ==
  (ret.op = "create_circuit" /\ req.num_qubits > 0) => IsNone(ret.raised)

Branches(b) ==
  CASE b = "qiskit" -> QiskitBranches
    [] b = "pennylane" -> PennyLaneBranches
    [] b = "cirq" -> CirqBranches
    [] b = "pytket" -> PyTKETBranches

Unsupported(b, r) ==
  \E i \in 1..Len(r.gates) : lower(r.gates[i].type) \notin Branches(b)

\* C8: when the circuit holds a gate type the adapter cannot express, the
\* adapter's translation or execution ends in an error for that engine; the
\* gate is never skipped so that the engine reports success for another circuit.
C8_UnsupportedGateFails ==
  /\ (ret.op = "create_circuit" /\ ret.backend # "pennylane"
        /\ req.num_qubits > 0 /\ Unsupported(ret.backend, req)) => IsSome(ret.raised)
  /\ (Executed /\ FromCreate /\ Unsupported(ret.backend, req)) => ~Successful

(***************************************************************************)
(* Properties of the server tools (SpecServer).                            *)
(***************************************************************************)
Recognised == QiskitBranches \cup PennyLaneBranches \cup CirqBranches \cup PyTKETBranches

\* the malformed requests of the validation rule
MalformedGate(g, nq) ==
  \/ ~InRange(g.qubits, nq)
  \/ ~Distinct(g.qubits)
  \/ lower(g.type) \notin Recognised
  \/ (ReadsParam(lower(g.type)) /\ g.params = <<>>)

Malformed(r) ==
  \/ r.num_qubits <= 0
  \/ \E i \in 1..Len(r.gates) : MalformedGate(r.gates[i], r.num_qubits)

ToolCalled == ret.op \in {"server.execute_circuit", "execute_multi_backend"}

Requested == Range(ret.backends)

\* C9: a request whose circuit is malformed is rejected before any adapter's
\* create_circuit or execute_circuit is invoked, and produces no per-engine
\* result.
C9_ValidationBeforeAdapters ==
  (ToolCalled /\ IsNone(ret.qasm) /\ Malformed(req) /\ Requested \subseteq BACKENDS
     /\ Requested # {}) =>
     /\ calls = <<>>
     /\ IsNone(ret.raised)
     /\ ret.op = "server.execute_circuit" => "error" \in The(ret.value).keys
     /\ ret.op = "execute_multi_backend" => DOMAIN The(ret.value).results = {}

ExecutedOn == {c.backend : c \in {x \in Range(calls) : x.op = "execute_circuit"}}

Multi == ret.op = "execute_multi_backend"
Response == The(ret.value)

InvocationsOn(b, op) == {i \in 1..Len(calls) : calls[i].backend = b /\ calls[i].op = op}

\* the engine ran to a CircuitResult without error in some pass of the loop
SucceededOn(b) ==
  \E i \in InvocationsOn(b, "execute_circuit") : calls[i].ended = "success"

\* the engine failed in some pass: it is not registered, create_circuit
\* raised, or execute_circuit returned a CircuitResult with error set
FailedOn(b) ==
  \/ b \notin BACKENDS
  \/ \E i \in InvocationsOn(b, "create_circuit") : calls[i].ended = "raised"
  \/ \E i \in InvocationsOn(b, "execute_circuit") : calls[i].ended \in {"raised", "error"}

\* C11: in execute_multi_backend the failure of one requested engine (not
\* registered, create_circuit raised, CircuitResult with error set) is recorded
\* under errors for that engine only and stops no other engine: every requested
\* registered engine is run, the call returns, and an engine that succeeded is
\* under results.
C11_FailureIsolation ==
  Multi =>
     /\ \A b \in Requested \cap BACKENDS : InvocationsOn(b, "create_circuit") # {}
     /\ IsSome(ret.value)
     /\ IsSome(ret.value) =>
          /\ \A b \in Requested : FailedOn(b) => b \in DOMAIN Response.errors
          /\ \A b \in DOMAIN Response.errors : FailedOn(b)
          /\ \A b \in Requested : SucceededOn(b) => b \in DOMAIN Response.results

C13_ResultsErrorsPartition ==
  (Multi /\ IsSome(ret.value)) =>
     /\ \A b \in Requested :
          (b \in DOMAIN Response.results) # (b \in DOMAIN Response.errors)
     /\ DOMAIN Response.results \cup DOMAIN Response.errors = Requested
     /\ \A b \in Requested \cap BACKENDS : InvocationsOn(b, "create_circuit") # {}

(***************************************************************************)
(* The comparison of execute_multi_backend by itself (SpecSimilarity).     *)
(* Two engines have succeeded on one request of `shots` shots; results     *)
(* holds their entries as the loop left them.  A step computes the         *)
(* comparison entry of the pair in one of the two orders in which the      *)
(* engines can have been requested.                                        *)
(***************************************************************************)
MaxSimShots == 6
MaxComparisons == 2

\* outcomes of a two-qubit circuit
SimStates == {<<"0", "0">>, <<"0", "1">>, <<"1", "0">>}

\* the counts dicts of `shots` shots over these outcomes
CountsOf(shots) ==
  UNION { {counts \in [K -> 1..shots] : sum(counts) = shots}
          : K \in (SUBSET SimStates) \ {{}} }

\* the results dict after both engines succeeded with these counts
ResultsOf(counts1, counts2, shots) ==
  LET result(name, counts) ==
        The(Finish(name, counts, 1, shots, <<>>).value)
      L1 == SetResult(LoopStart(PennyLane_init), "qiskit",
                      result("qiskit", counts1), <<>>, PennyLane_init)
  IN  SetResult(L1, "cirq", result("cirq", counts2), <<>>, PennyLane_init).results

Compared(results, entries) == [op |-> "compare", results |-> results, entries |-> entries]

InitSimilarity ==
  /\ req = Request(2, <<>>)
  /\ pennylane = PennyLane_init
  /\ circuit = None
  /\ \E shots \in 1..MaxSimShots : \E counts1, counts2 \in CountsOf(shots) :
       ret = Compared(ResultsOf(counts1, counts2, shots), <<>>)
  /\ BACKENDS = McpBACKENDS
  /\ BACKEND_STATUS = EmptyDict
  /\ calls = <<>>

\* comparison[f'{b1}_vs_{b2}'] = {'similarity': ..., 'time_ratio': ...}
CompareResults(b1, b2) ==
  /\ Len(ret.entries) < MaxComparisons
  /\ \E entry \in Compare(ret.results, b1, b2) :
       ret' = Compared(ret.results,
                       Append(ret.entries,
                              [b1 |-> b1, b2 |-> b2,
                               similarity |-> The(entry.value).similarity]))
  /\ UNCHANGED <<req, pennylane, circuit, BACKENDS, BACKEND_STATUS, calls>>

NextSimilarity ==
  \/ CompareResults("qiskit", "cirq")
  \/ CompareResults("cirq", "qiskit")

SpecSimilarity == InitSimilarity /\ [][NextSimilarity]_vars

(***************************************************************************)
(* Properties of the similarity metric (SpecSimilarity).                   *)
(***************************************************************************)
Comparing == ret.op = "compare"
Entries == {ret.entries[i] : i \in 1..Len(ret.entries)}
ProbOf(b) == The(ret.results[b].probabilities)
Identical(b1, b2) == ProbOf(b1) = ProbOf(b2)
Disjoint(b1, b2) == DOMAIN ProbOf(b1) \cap DOMAIN ProbOf(b2) = {}

\* 2^-20, below the 1e-6 the specification allows a sum of probabilities
Tolerance == Float(0 - 20, Pow2(26), 0)

\* |x - y| <= Tolerance
Close(x, y) ==
  /\ ~float_lt(float_add(y, Tolerance), x)
  /\ ~float_lt(float_add(x, Tolerance), y)

CountOf(b, state) ==
  LET counts == The(ret.results[b].counts)
  IN  IF state \in DOMAIN counts THEN counts[state] ELSE 0

Overlap(b1, b2) ==
  LET all_states == DOMAIN ProbOf(b1) \cup DOMAIN ProbOf(b2)
  IN  sum([state \in all_states |->
             IF CountOf(b1, state) <= CountOf(b2, state) THEN CountOf(b1, state)
             ELSE CountOf(b2, state)])

ShotsOf(b) == sum(The(ret.results[b].counts))

Occurrences(b) == Cardinality({i \in 1..Len(ret.backends) : ret.backends[i] = b})

Creations(b) == InvocationsOn(b, "create_circuit") \cup InvocationsOn(b, "from_qasm")

Failures(b) ==
  {i \in 1..Len(calls) : calls[i].backend = b /\ calls[i].ended \in {"raised", "error"}}

\* C16: within one execute_circuit or execute_multi_backend call every
\* occurrence of an engine in the request leads to at most one circuit creation
\* and at most one execute_circuit invocation on that adapter, whether it
\* succeeds or fails; an execute_circuit invocation follows a creation that
\* returned; a failed occurrence is not attempted again, and the response names
\* a failed engine once.
C16_NoRetries ==
  ToolCalled =>
     /\ \A b \in BackendType :
          /\ Cardinality(Creations(b)) <= Occurrences(b)
          /\ Cardinality(InvocationsOn(b, "execute_circuit")) <= Occurrences(b)
          /\ Cardinality(Failures(b)) <= Occurrences(b)
          /\ \A i \in InvocationsOn(b, "execute_circuit") :
               i - 1 \in Creations(b) /\ calls[i - 1].ended = "returned"
          /\ \A i \in Creations(b) :
               calls[i].ended = "raised" =>
                 (i + 1 \in DOMAIN calls => calls[i + 1].op # "execute_circuit")
     /\ Len(calls) <= 2 * Len(ret.backends)
     /\ (Multi /\ IsSome(ret.value)) =>
          Cardinality(DOMAIN Response.errors) <= Cardinality(Requested)

\* an engine requested twice in one execute_multi_backend call: it was created
\* and executed once per occurrence, and one of the two executions failed
C16_Witness ==
  /\ Multi
  /\ \E b \in BACKENDS :
       /\ Occurrences(b) = 2
       /\ Cardinality(InvocationsOn(b, "create_circuit")) = 2
       /\ Cardinality(InvocationsOn(b, "execute_circuit")) = 2
       /\ Cardinality(Failures(b)) = 1

(***************************************************************************)
(* The registry and the probe (SpecTools).                                 *)
(***************************************************************************)
\* C17: no tool call of either server writes the registry: every step leaves
\* BACKENDS with the keys and instances it had at startup; BACKEND_STATUS is
\* written by the probe of list_backends alone, which writes nothing else of
\* the server's state.
C17_RegistryFrame ==
  [][ /\ BACKENDS' = BACKENDS
      /\ BACKEND_STATUS' # BACKEND_STATUS =>
           (ret'.op = "list_backends" /\ pennylane' = pennylane /\ calls' = <<>>) ]_vars

\* the probe has reported an engine that is not registered, and a benchmark
\* has then run on the registry as it was
C17_Witness ==
  /\ ret.op = "benchmark_backends"
  /\ BACKENDS = ServerBACKENDS
  /\ BACKEND_STATUS # EmptyDict
  /\ BACKEND_STATUS["pennylane"]
  /\ calls # <<>>

\* the ways the call recorded in ret can end, computed from its arguments and
\* the registry alone
Outcomes ==
  IF Multi
  THEN Server_execute_multi_backend(BACKENDS, pennylane, req.num_qubits, req.gates,
                                    ret.backends, ret.shots)
  ELSE Server_execute_circuit(BACKENDS, pennylane, req.num_qubits, req.gates,
                              ret.backends[1], ret.shots, ret.qasm)

Attempted == {calls[i].backend : i \in 1..Len(calls)}

\* C19: whatever BACKEND_STATUS holds (never probed, or probed with an engine
\* reported available or not), execute_circuit and execute_multi_backend end
\* in one of the ways their arguments and the registry determine: they attempt
\* the registered engines among the requested ones and no other, and
\* execute_multi_backend files every requested engine under results or errors.
C19_ProbeAdvisory ==
  ToolCalled =>
     /\ \E out \in Outcomes :
          out.raised = ret.raised /\ out.value = ret.value /\ out.calls = calls
     /\ Attempted \subseteq Requested \cap BACKENDS
     /\ Multi => Attempted = Requested \cap BACKENDS
     /\ (Multi /\ IsSome(ret.value)) =>
          DOMAIN Response.results \cup DOMAIN Response.errors = Requested

\* the probe reported qiskit available and pennylane not; execute_multi_backend
\* ran qiskit and refused pennylane, which is not registered
C19_Witness ==
  /\ Multi
  /\ BACKEND_STATUS # EmptyDict
  /\ BACKEND_STATUS["qiskit"] /\ ~BACKEND_STATUS["pennylane"]
  /\ ret.backends = <<"qiskit", "pennylane">>
  /\ IsSome(ret.value)
  /\ DOMAIN Response.results = {"qiskit"}
  /\ DOMAIN Response.errors = {"pennylane"}

(***************************************************************************)
(* The GHZ generator (SpecTools).                                          *)
(***************************************************************************)
GhzCalled == ret.op \in {"create_ghz_state", "call_tool.create_ghz_state"}

\* the num_qubits argument of the call; server_mcp.py takes it from arguments
GhzN == IF ret.op = "create_ghz_state" THEN ret.num_qubits ELSE The(ret.num_qubits)

GhzChain(n) ==
  [i \in 1..n |-> IF i = 1 THEN Gate("h", <<0>>, <<>>) ELSE Gate("cx", <<0, i - 1>>, <<>>)]

\* C20: create_ghz_state of server.py and of server_mcp.py builds, for N >= 2,
\* the list h on qubit 0, cx(0,1), ..., cx(0,N-1) and no other, whatever the
\* backend, the shots and the earlier calls; for N = 2 it is the list of
\* create_bell_state; for N < 2 the call ends with an error and has invoked no
\* backend.
C20_GhzGenerator ==
  /\ (GhzCalled /\ (ret.op = "call_tool.create_ghz_state" => IsSome(ret.num_qubits))) =>
       /\ IsSome(ret.gates) => The(ret.gates) = GhzChain(GhzN)
       /\ (GhzN >= 2 /\ (ret.op = "create_ghz_state" \/ ret.backends[1] \in BACKENDS))
            => IsSome(ret.gates)
       /\ (GhzN = 2 /\ IsSome(ret.gates)) => The(ret.gates) = BellGates
       /\ GhzN < 2 =>
            /\ calls = <<>>
            /\ IsNone(ret.gates)
            /\ IsNone(ret.raised)
            /\ IsSome(The(ret.value).error)
  /\ ret.op \in {"create_bell_state", "call_tool.create_bell_state"} =>
       (IsSome(ret.gates) =>
          The(ret.gates) = <<Gate("h", <<0>>, <<>>), Gate("cx", <<0, 1>>, <<>>)>>)

\* create_ghz_state(3, 'qiskit', shots) of server.py ran h(0), cx(0,1), cx(0,2)
\* and returned the counts
C20_Witness ==
  /\ ret.op = "create_ghz_state"
  /\ ret.num_qubits = 3
  /\ IsSome(ret.gates)
  /\ Len(The(ret.gates)) = 3
  /\ Len(calls) = 2
  /\ IsSome(ret.value)
  /\ The(ret.value).success = Some(TRUE)

(***************************************************************************)
(* Two requests on one adapter instance (SpecInterleaved).  The caller of  *)
(* the first request holds the circuit create_circuit returned; before it  *)
(* executes it, the create_circuit of another request runs on the same     *)
(* instance.                                                               *)
(***************************************************************************)
InitInterleaved ==
  /\ req \in {Request(nq, <<>>) : nq \in NumQubitsInputs}
  /\ pennylane = PennyLane_init
  /\ circuit = None
  /\ ret = NoCall
  /\ BACKENDS = McpBACKENDS
  /\ BACKEND_STATUS = EmptyDict
  /\ calls = <<>>

\* backend.create_circuit(num_qubits, {'gates': gates, 'measure': True}) of
\* another request, on the instance that made the circuit the caller holds
OtherCreate(b, num_qubits, gates) ==
  LET circuit_def == CircuitDef(gates, TRUE)
      out == create_circuit(b, num_qubits, circuit_def)
  IN  /\ IsSome(circuit)
      /\ The(circuit).backend = b
      /\ ret.op = "create_circuit"
      /\ pennylane' = create_circuit_self(b, pennylane, num_qubits, circuit_def)
      /\ ret' = Call("other.create_circuit", b, 0, NoCircuit,
                     [raised |-> out.raised, value |-> None, shot |-> EmptyDict,
                      caught |-> None])
      /\ UNCHANGED <<req, circuit, BACKENDS, BACKEND_STATUS, calls>>

NextInterleaved ==
  \/ \E g \in GateInputs : AddGate(g, MaxServerGates)
  \/ \E b \in Adapters, measure \in BOOLEAN : CreateCircuit(b, measure)
  \/ \E b \in Adapters, num_qubits \in NumQubitsInputs,
        gates \in {<<>>, <<Gate("x", <<0>>, <<>>)>>} : OtherCreate(b, num_qubits, gates)
  \/ \E b \in Adapters, shots \in ShotsInputs : ExecuteCircuit(b, shots)

SpecInterleaved == InitInterleaved /\ [][NextInterleaved]_vars

\* the instance as the create_circuit that made the held circuit left it
SelfAtCreation ==
  create_circuit_self(The(circuit).backend, PennyLane_init, The(circuit).num_qubits,
                      The(circuit).native)

MeasureFlag(held) ==
  IF held.backend = "pennylane" THEN held.native.measure
  ELSE HasMeasure(held.native)

Sampled == Executed /\ ret.shot # EmptyDict

\* C21: a circuit that create_circuit built is executed with an all-qubit
\* measurement only when its circuit_def had measure = true; with
\* measure = false no adapter appends or performs a measurement.
C21_MeasureIffFlag ==
  (Sampled /\ FromCreate /\ ret.circuit = The(circuit).native)
    => MeasureFlag(The(circuit))

(***************************************************************************)
(* C22.  Failure responses.  An engine-scoped failure of a tool call: the  *)
(* requested engine is not registered, or an adapter invocation of the     *)
(* call raised, or execute_circuit returned a CircuitResult with error     *)
(* set.  The unknown-backend messages are f-strings that hold the id the   *)
(* caller sent; every other failure dict names the engine under 'backend'. *)
(***************************************************************************)
EngineTools ==
  {"server.execute_circuit", "create_circuit", "call_tool.execute_circuit",
   "call_tool.create_bell_state", "call_tool.create_ghz_state"}

UnknownBackend == ret.backends[1] \notin BACKENDS

EngineFailed ==
  UnknownBackend \/ \E i \in 1..Len(calls) : calls[i].ended \in {"raised", "error"}

NamesEngine(resp) ==
  \/ IsSome(resp.backend) /\ The(resp.backend) = ret.backends[1]
  \/ The(resp.error) \in {"Backend not supported", "Backend not supported or not loaded",
                          "Backend not available"}

\* C22: every engine-scoped failure of server.execute_circuit,
\* server.create_circuit and call_tool ends in a failure response that
\* carries the engine id and a non-empty description string, never in an
\* exception.
C22_FailureResponse ==
  (ret.op \in EngineTools /\ EngineFailed) =>
    /\ IsSome(ret.value)
    /\ IsSome(Response.error)
    /\ The(Response.error) # ""
    /\ NamesEngine(Response)

(***************************************************************************)
(* C23.  Shots are accounted for.  The native labels of a Qiskit run are   *)
(* those of the circuit as it was run (with the measurement added when it  *)
(* had none).                                                              *)
(***************************************************************************)
AsRun(c) == IF HasMeasure(c) THEN c ELSE measure_all(c)

NativeLabels == {QiskitLabel(AsRun(ret.circuit), s) : s \in DOMAIN ret.shot}

\* C23: a successful CircuitResult has counts that sum to the requested shots
\* and metadata.shots equal to them; a failed one has metadata.shots equal to
\* them too; and the Qiskit key reversal keeps distinct native outcomes
\* distinct.
C23_ShotsAccounted ==
  (Executed /\ IsSome(ret.value)) =>
    /\ Result.metadata.shots = ret.shots
    /\ Result.metadata.success =>
         /\ IsSome(Result.counts)
         /\ sum(The(Result.counts)) = ret.shots
    /\ (Result.metadata.success /\ ret.backend = "qiskit") =>
         Cardinality(DOMAIN The(Result.counts)) = Cardinality(NativeLabels)

C23_Witness ==
  /\ Successful
  /\ ret.backend = "qiskit"
  /\ ret.shots = MaxShots
  /\ Cardinality(NativeLabels) = 2
  /\ sum(The(Result.counts)) = MaxShots

(***************************************************************************)
(* C24.  The engines benchmark_backends runs (SpecTools).                  *)
(***************************************************************************)
\* the registered engines the availability probe reports as available
ProbedAvailable ==
  {name \in BACKENDS : \E status \in check_backend_availability(BACKENDS) : status[name]}

\* C24: in every state of the server, a benchmark_backends call runs the
\* benchmark circuit on every registered engine that the availability probe
\* reports as available, also when no probe has run before the call.
C24_BenchmarkRunsAvailable ==
  ret.op = "benchmark_backends" => Attempted = ProbedAvailable

(***************************************************************************)
(* C25.  get_circuit_info on the circuit create_circuit returned.  The     *)
(* circuit holds the translated gates of req.gates and, when it measures,  *)
(* the measurement of every qubit after them.                              *)
(***************************************************************************)
InfoReturned == ret.op = "get_circuit_info" /\ IsSome(ret.value)
Info == The(ret.value)

\* the qubits of each gate of the circuit, in order
GateQubits ==
  IF ret.backend = "pennylane"
  THEN [i \in 1..Len(ret.circuit.gates) |-> ret.circuit.gates[i].qubits]
  ELSE [i \in 1..Len(ret.circuit.ops) |-> ret.circuit.ops[i].qubits]

Measures == ret.backend # "pennylane" /\ HasMeasure(ret.circuit)

InfoOf(b) == InfoReturned /\ ret.backend = b

\* the longest chain of dependent operations
LongestChain == depth(GateQubits) + (IF Measures THEN 1 ELSE 0)

\* C25: on every adapter get_circuit_info returns the qubit count of the
\* circuit, its number of instructions (the gates, and what the measurement
\* adds when the circuit was created with one), its depth as the longest chain of dependent operations, and
\* the set of the distinct gate type names, which is not empty when the
\* circuit has a gate.
C25_CircuitInfo ==
  InfoReturned =>
    /\ Info.num_qubits = (IF ret.backend = "pennylane" THEN Some(The(circuit).num_qubits)
                          ELSE ret.circuit.num_qubits)
    /\ Info.num_gates >= Len(GateQubits)
    /\ (ret.backend = "pennylane" \/ ret.circuit.regs = <<>>) =>
         Info.num_gates = Len(GateQubits)
    /\ Info.depth = LongestChain
    /\ Len(GateQubits) > 0 => Info.gate_types # {}

(***************************************************************************)
(* C26.  A CircuitResult with error set is a failure (SpecServer).         *)
(***************************************************************************)
\* execute_circuit of the engine returned a CircuitResult with error set
ErroredOn(b) ==
  \E i \in InvocationsOn(b, "execute_circuit") : calls[i].ended = "error"

\* C26: when the adapter returned a CircuitResult with error set, whatever
\* the error string, server.execute_circuit answers success = False and
\* execute_multi_backend files the engine under errors and not under
\* results; no response reports a success without counts and probabilities,
\* and no such result reaches the comparison.
C26_ErrorIsFailure ==
  /\ (ret.op = "server.execute_circuit" /\ IsSome(ret.value)) =>
       /\ ErroredOn(ret.backends[1]) => Response.success = Some(FALSE)
       /\ Response.success = Some(TRUE) =>
            IsSome(Response.counts) /\ IsSome(Response.probabilities)
  /\ (Multi /\ IsSome(ret.value)) =>
       /\ \A b \in Requested :
            (ErroredOn(b) /\ ~SucceededOn(b)) =>
               b \in DOMAIN Response.errors /\ b \notin DOMAIN Response.results
       /\ \A b \in DOMAIN Response.results :
            IsSome(Response.results[b].counts)
              /\ IsSome(Response.results[b].probabilities)
  /\ (Multi /\ IsSome(ret.raised)) => The(ret.raised) # AttributeError

(***************************************************************************)
(* C27.  The comparison map (SpecServer).  The key '<b1>_vs_<b2>' is given *)
(* by the pair <<b1, b2>>; Response.order is the order in which the keys   *)
(* entered results.                                                        *)
(***************************************************************************)
Entered(b) == CHOOSE i \in 1..Len(Response.order) : Response.order[i] = b

McpCalled ==
  ret.op \in {"call_tool.list_backends", "call_tool.create_bell_state",
              "call_tool.create_ghz_state", "call_tool.execute_circuit",
              "call_tool.run"}

\* C28: call_tool of server_mcp.py returns its one JSON text response, a
\* result or an error object, for every tool name and every arguments
\* object (required arguments missing, gates malformed, translation
\* failing); it never ends by raising.
C28_CallToolReturns ==
  McpCalled => IsNone(ret.raised) /\ IsSome(ret.value)

(***************************************************************************)
(* C29.  The gates benchmark_backends generates (SpecTools).               *)
(***************************************************************************)
\* every adapter has a branch for the gate type
SupportedByAll(t) ==
  t \in QiskitBranches \cap PennyLaneBranches \cap CirqBranches \cap PyTKETBranches

\* C29: for every circuit_type and every num_qubits, each gate that
\* benchmark_backends generates has its qubit indices in [0, num_qubits),
\* pairwise distinct, and a gate type that every adapter supports.
C29_BenchmarkGatesValid ==
  (ret.op = "benchmark_backends" /\ IsSome(ret.gates)) =>
    \A i \in 1..Len(The(ret.gates)) :
      LET gate == The(ret.gates)[i]
      IN  /\ \A q \in Range(gate.qubits) : 0 <= q /\ q < ret.num_qubits
          /\ Distinct(gate.qubits)
          /\ SupportedByAll(gate.type)

(***************************************************************************)
(* Request lists that name an engine more than once (SpecRepeated): the    *)
(* registry of server_mcp.py, lists of MaxRepeated ids over two engines.   *)
(***************************************************************************)
MaxRepeated == 3

RepeatedLists == [1..MaxRepeated -> {"qiskit", "pennylane"}]

InitRepeated == InitServer /\ BACKENDS = McpBACKENDS

NextRepeated ==
  \/ \E g \in GateInputs : AddGate(g, MaxServerGates)
  \/ NextRequest
  \/ \E backends \in RepeatedLists, shots \in ShotsInputs :
        ToolExecuteMultiBackend(backends, shots)

SpecRepeated == InitRepeated /\ [][NextRepeated]_vars


(***************************************************************************)
(* The caller changes its gate list after create_circuit (SpecAliasing).   *)
(* req.gates is the caller's list object.  The Qiskit, Cirq and pytket     *)
(* circuits are objects of their own, built from the list;                 *)
(* PennyLaneBackend.create_circuit returns circuit_def itself and keeps it *)
(* in self.last_circuit_def, so the circuit the caller holds, and the      *)
(* attribute, are the dict whose 'gates' is that list: what the caller     *)
(* appends to the list afterwards is in both.                              *)
(***************************************************************************)
\* the dict that holds the caller's list, after the list became `gates`
Shared(circuit_def, gates) == [circuit_def EXCEPT !.gates = gates]

\* gates.append(g), after create_circuit returned
AppendLater(g) ==
  /\ ret.op = "create_circuit"
  /\ IsSome(circuit)
  /\ Len(req.gates) < MaxGates
  /\ req' = [req EXCEPT !.gates = Append(@, g)]
  /\ circuit' = IF The(circuit).backend = "pennylane"
                THEN Some([The(circuit) EXCEPT
                             !.native = Shared(@, req'.gates)])
                ELSE circuit
  /\ pennylane' = IF IsSome(pennylane.last_circuit_def)
                  THEN [pennylane EXCEPT
                          !.last_circuit_def = Some(Shared(The(@), req'.gates))]
                  ELSE pennylane
  /\ UNCHANGED <<ret, BACKENDS, BACKEND_STATUS, calls>>

NextAliasing ==
  \/ \E g \in {Gate("x", <<0>>, <<>>), Gate("h", <<0>>, <<>>)} : AddGate(g, 1)
  \/ \E b \in Adapters, measure \in BOOLEAN : CreateCircuit(b, measure)
  \/ \E g \in {Gate("x", <<0>>, <<>>), Gate("cx", <<0, 1>>, <<>>)} : AppendLater(g)
  \/ \E b \in Adapters : ExecuteCircuit(b, 1)

SpecAliasing == Init /\ [][NextAliasing]_vars

\* C30: no adapter operation modifies its inputs: create_circuit leaves the
\* circuit_def and the gate list as they were, execute_circuit leaves the
\* circuit it was given (and the gate list) as they were, and a circuit
\* already created stays as it is when the caller changes its gate list
\* afterwards.
C30_InputsUnchanged ==
  [][ /\ (ret' # ret /\ ret'.op = "create_circuit") => req' = req
      /\ (ret' # ret /\ ret'.op = "execute_circuit") =>
            (req' = req /\ circuit' = circuit)
      /\ (req' # req /\ IsSome(circuit)) => circuit' = circuit ]_vars

====
